---- MODULE Spec2Model ----
(***************************************************************************)
(* A model of rv's catalog fetcher (crates/rv/src/commands/ruby/list.rs):  *)
(* fetch_available_rubies with its two on-disk stores, the HTTP exchange   *)
(* with the releases endpoint, and the fallback of the `list` command     *)
(* (specification Spec); the installation scan with its per-installation   *)
(* cache, crates/rv/src/config/ruby_cache.rs (specification SpecScan); and *)
(* the merge of installed and available rubies, rubies_to_show             *)
(* (specification SpecMerge).  Each specification holds the variables of   *)
(* the other two fixed.                                                    *)
(*                                                                         *)
(* Time is in whole seconds.  One invocation runs at a time (the fetch is  *)
(* single-shot and awaited); the clock only moves forward.                 *)
(***************************************************************************)
EXTENDS Integers, Sequences, FiniteSets, TLC

\* ------------------------------------------------------------------ bounds
\* The clock runs from 0 to MaxTime in steps of TickStep seconds.
MaxTime == 120
TickStep == 30

\* ------------------------------------------------------------- option type
\* Option<T>: None is the empty tuple, Some(x) the one-element tuple.
None == <<>>
Some(x) == <<x>>
IsSome(o) == Len(o) = 1
Get(o) == o[1]

Max(a, b) == IF a >= b THEN a ELSE b

\* ----------------------------------------------------------------- release
\* rv_ruby::Release {name, assets}; an asset is represented by its file name.
ReleaseA == [name |-> "20251006", assets |-> <<"ruby-3.3.0.arm64_linux.tar.gz">>]
ReleaseB == [name |-> "20251101", assets |-> <<"ruby-3.4.1.arm64_linux.tar.gz">>]
Releases == {ReleaseA, ReleaseB}

\* The release returned for RV_RELEASES_URL = "-".
SentinelRelease == [name |-> "Empty release", assets |-> <<>>]
\* The release the list command falls back to when nothing is readable.
FallbackRelease == [name |-> "Empty", assets |-> <<>>]

ETags == {"e1", "e2"}

\* ------------------------------------------------------- Cache-Control text
\* A header value is a sequence of one-character strings.
Digits == <<"0", "1", "2", "3", "4", "5", "6", "7", "8", "9">>
IsDigit(c) == \E d \in 1..10 : Digits[d] = c
DigitVal(c) == (CHOOSE d \in 1..10 : Digits[d] = c) - 1

\* The literal part of PARSE_MAX_AGE_REGEX, r"max-age=(\d+)".
MaxAgeLiteral == <<"m", "a", "x", "-", "a", "g", "e", "=">>

\* The regex matches at position i: the literal, then at least one digit.
MaxAgeMatchAt(h, i) ==
    /\ i + Len(MaxAgeLiteral) <= Len(h)
    /\ SubSeq(h, i, i + Len(MaxAgeLiteral) - 1) = MaxAgeLiteral
    /\ IsDigit(h[i + Len(MaxAgeLiteral)])

\* \d+ is greedy: the capture runs from `from` over every following digit.
RECURSIVE CaptureEnd(_, _)
CaptureEnd(h, k) ==
    IF k + 1 <= Len(h) /\ IsDigit(h[k + 1]) THEN CaptureEnd(h, k + 1) ELSE k

\* The value of a digit run (the runs the value is taken of are short).
RECURSIVE ParseU64(_)
ParseU64(ds) ==
    IF Len(ds) = 0 THEN 0
    ELSE 10 * ParseU64(SubSeq(ds, 1, Len(ds) - 1)) + DigitVal(ds[Len(ds)])

\* str::parse::<u64> fails on a digit run whose value is above u64::MAX,
\* 18446744073709551615.  The run is compared as text: without its leading
\* zeros, by length and then digit by digit.
U64MaxDigits ==
    <<"1", "8", "4", "4", "6", "7", "4", "4", "0", "7",
      "3", "7", "0", "9", "5", "5", "1", "6", "1", "5">>

RECURSIVE StripZeros(_)
StripZeros(ds) ==
    IF Len(ds) > 1 /\ Head(ds) = "0" THEN StripZeros(Tail(ds)) ELSE ds

RECURSIVE DigitsLeq(_, _)
DigitsLeq(a, b) ==
    IF a = <<>> THEN TRUE
    ELSE IF Head(a) = Head(b) THEN DigitsLeq(Tail(a), Tail(b))
    ELSE DigitVal(Head(a)) < DigitVal(Head(b))

FitsU64(ds) ==
    LET d == StripZeros(ds)
    IN  \/ Len(d) < Len(U64MaxDigits)
        \/ Len(d) = Len(U64MaxDigits) /\ DigitsLeq(d, U64MaxDigits)

\* age.as_str().parse::<u64>().ok()
ParseSeconds(ds) == IF FitsU64(ds) THEN Some(ParseU64(ds)) ELSE None

\* parse_max_age: the first (leftmost) match of the regex, its capture
\* group parsed as seconds; None when the regex does not match.
MutParseMaxAgeLast(h) ==
    LET hits == {i \in 1..Len(h) : MaxAgeMatchAt(h, i)}
    IN  IF hits = {} THEN None
        ELSE LET i == CHOOSE x \in hits : \A y \in hits : y <= x
                 from == i + Len(MaxAgeLiteral)
             IN  ParseSeconds(SubSeq(h, from, CaptureEnd(h, from)))

parse_max_age(h) ==
    LET hits == {i \in 1..Len(h) : MaxAgeMatchAt(h, i)}
    IN  IF hits = {} THEN None
        ELSE LET i == CHOOSE x \in hits : \A y \in hits : x <= y
                 from == i + Len(MaxAgeLiteral)
             IN  ParseSeconds(SubSeq(h, from, CaptureEnd(h, from)))

\* Cache-Control values the endpoint may send.
HdrMaxAge30 == <<"m", "a", "x", "-", "a", "g", "e", "=", "3", "0">>
HdrPublicMaxAge90 ==
    <<"p", "u", "b", "l", "i", "c", ",", " ",
      "m", "a", "x", "-", "a", "g", "e", "=", "9", "0">>
HdrNoCache == <<"n", "o", "-", "c", "a", "c", "h", "e">>

\* The Cache-Control header of a response: absent, or one of the values.
CacheControls ==
    {None, Some(HdrMaxAge30), Some(HdrPublicMaxAge90), Some(HdrNoCache)}

\* MINIMUM_CACHE_TTL, in seconds.
MINIMUM_CACHE_TTL == 60
\* The default max-age, Duration::from_secs(60), of both response arms.
DefaultMaxAge == 60

\* headers.get("Cache-Control").and_then(to_str).and_then(parse_max_age)
\*        .unwrap_or(Duration::from_secs(60))
MaxAgeOf(cc) ==
    IF IsSome(cc) /\ IsSome(parse_max_age(Get(cc)))
    THEN Get(parse_max_age(Get(cc)))
    ELSE DefaultMaxAge

\* SystemTime::now() + max_age.max(MINIMUM_CACHE_TTL)
MutExpiryNoFloor(t, cc) == t + MaxAgeOf(cc)

MutExpiryNoNow(t, cc) == Max(MaxAgeOf(cc), MINIMUM_CACHE_TTL)

ExpiryAt(t, cc) == t + Max(MaxAgeOf(cc), MINIMUM_CACHE_TTL)

\* ------------------------------------------------------------ CachedRelease
CachedRelease(e, t, r) == [expires_at |-> e, etag |-> t, release |-> r]

\* serde_json::to_string(&CachedRelease): the document's three members.
ToJson(c) == <<c.expires_at, c.etag, c.release>>
\* Bytes that are no JSON document of a CachedRelease (an empty or cut file).
Garbage == <<>>
\* serde_json::from_slice::<CachedRelease>(..).ok()
FromJson(bytes) ==
    IF Len(bytes) = 3
    THEN Some(CachedRelease(bytes[1], bytes[2], bytes[3]))
    ELSE None

\* -------------------------------------------------------------------- state
VARIABLES
    now,          \* SystemTime::now(), seconds
    cacache,      \* cacache store under cache.root(): the bytes indexed by the
                  \* key cache_entry.path(), None when the key is not indexed
    cacheFile,    \* the plain file at cache_entry.path(), None when absent
    pc,           \* "idle", "awaiting" (request sent, no response yet), "done"
    api_base,     \* RV_RELEASES_URL as read by the running invocation
    cached_data,  \* fetch's local: Option<CachedRelease> read in step 1
    request,      \* the GET built by this invocation: None, or its If-None-Match
    sent,         \* GETs sent by this invocation
    cacheReads,   \* reads of the catalog cache made by fetch in this invocation
    response,     \* what the invocation received: None, or status and headers
    result,       \* fetch's return value: None while running
    last200,      \* the CachedRelease persisted by the latest 200 arm, if any
    listRelease   \* the release the list command goes on with

vars ==
    <<now, cacache, cacheFile, pc, api_base, cached_data, request, sent,
      cacheReads, response, result, last200, listRelease>>

\* The installation scan (discover_rubies).
VARIABLES
    fs,           \* the search roots and the directories under them
    rubyCache,    \* the "interpreters" bucket: cache key -> Option<bytes>
    scanpc,       \* "idle", "scanning", "finished"
    cand,         \* ruby_paths: the candidate directories of the running scan
    work,         \* per candidate: "todo"; "missed" or "evicted" (the lookup
                  \* missed, and removed the entry it read; the probe is to
                  \* come); "hit" or "probed" (done)
    collected,    \* the rubies kept so far, in the order the workers finished
    scanResult,   \* the list the latest finished scan returned
    prevResult,   \* the list the scan before returned, and whether one of
                  \* its stores failed
    changed,      \* the directories or the cache were changed from outside
                  \* since the latest scan finished
    storeFailed,  \* a cache_ruby of the latest scan failed
    fsChanges     \* number of changes made from outside so far

scanVars ==
    <<fs, rubyCache, scanpc, cand, work, collected, scanResult, prevResult,
      changed, storeFailed, fsChanges>>

\* The merge (rubies_to_show) and the listing of the installed rubies alone.
VARIABLES
    mergeIn,      \* the arguments: release, installed_rubies, active_ruby, platform
    mergeOut,     \* the entries returned, None before the call
    installedOut  \* the entries `list --installed-only` prints, None before

mergeVars == <<mergeIn, mergeOut, installedOut>>

\* Calls of the functions that read no state (latest_patch_version,
\* matching_ruby's search, parse_max_age).
VARIABLES
    callIn,       \* the function called and its arguments
    callOut       \* what it returned, None before the call

callVars == <<callIn, callOut>>

\* The pin command (set_pinned_ruby, show_pinned_ruby).
VARIABLES
    pinConfig,    \* the Config of the latest invocation: project_dir (an
                  \* Option), current_dir and root; None before the first
    pinFiles,     \* per directory, its .ruby-version: None, Some(text), or
                  \* a file this user can neither read nor write
    pinLog        \* the invocations of pin so far, with what they returned

pinVars == <<pinConfig, pinFiles, pinLog>>

\* Several invocations of rv scan the same directories at once
\* (ruby_cache.rs, discover_rubies); the cache files are shared.
VARIABLES
    racepc,       \* per invocation: "idle", "scanning", "finished"
    raceWork,     \* per invocation and candidate: where its worker is
    raceHandle,   \* per invocation and candidate: the file its worker opened
    raceFiles,    \* per candidate, the cache file of its key: how often the
                  \* path was created, and its bytes, None when it is unlinked
    raceCollected,\* per invocation: the rubies its workers have returned
    raceResult,   \* per invocation: what discover_rubies returned
    raceEvicted   \* a lookup removed a file another invocation was writing

raceVars == <<racepc, raceWork, raceHandle, raceFiles, raceCollected,
              raceResult, raceEvicted>>

allVars == <<vars, scanVars, mergeVars, callVars, pinVars, raceVars>>

\* The variables of a part no specification step touches.
FetchParked ==
    /\ now = None /\ cacache = None /\ cacheFile = None /\ pc = None
    /\ api_base = None /\ cached_data = None /\ request = None /\ sent = None
    /\ cacheReads = None /\ response = None /\ result = None
    /\ last200 = None /\ listRelease = None

ScanParked ==
    /\ fs = None /\ rubyCache = None /\ scanpc = None /\ cand = None
    /\ work = None /\ collected = None /\ scanResult = None
    /\ prevResult = None
    /\ changed = None /\ storeFailed = None /\ fsChanges = None

MergeParked == mergeIn = None /\ mergeOut = None /\ installedOut = None

CallParked == callIn = None /\ callOut = None

PinParked == pinConfig = None /\ pinFiles = None /\ pinLog = None

RaceParked ==
    /\ racepc = None /\ raceWork = None /\ raceHandle = None
    /\ raceFiles = None /\ raceCollected = None /\ raceResult = None
    /\ raceEvicted = None

Ok(r) == [ok |-> TRUE, release |-> Some(r), err |-> "-"]
Err(e) == [ok |-> FALSE, release |-> None, err |-> e]

Resp(status, etag, cc) == [status |-> status, etag |-> etag, cache_control |-> cc]

\* What the cache directory may hold when rv starts.  The directory outlives
\* the process, so each store holds nothing, an unreadable blob, or an entry
\* put there earlier (expired at 0, or fresh until 60).  The cacache store is
\* only ever rewritten by the 304 arm, never first written by this code: an
\* entry is in it only when the directory already held one.
InitEntries ==
    {CachedRelease(e, t, ReleaseA) : e \in {0, MINIMUM_CACHE_TTL}, t \in {None, Some("e1")}}
InitBlobs == {None, Some(Garbage)} \cup {Some(ToJson(c)) : c \in InitEntries}

Init ==
    /\ now = 0
    /\ cacache \in InitBlobs
    /\ cacheFile \in InitBlobs
    /\ pc = "idle"
    /\ api_base = "-"
    /\ cached_data = None
    /\ request = None
    /\ sent = 0
    /\ cacheReads = 0
    /\ response = None
    /\ result = None
    /\ last200 = None
    /\ listRelease = None
    /\ ScanParked
    /\ MergeParked
    /\ CallParked
    /\ PinParked
    /\ RaceParked

\* The clock advances; it does so at any point of an invocation.
Tick ==
    /\ now + TickStep <= MaxTime
    /\ now' = now + TickStep
    /\ UNCHANGED <<cacache, cacheFile, pc, api_base, cached_data, request, sent,
                   cacheReads, response, result, last200, listRelease>>
    /\ UNCHANGED <<scanVars, mergeVars, callVars, pinVars, raceVars>>

\* The list command's use of fetch's result r, with the file as it is then:
\* the fetched release, or on an error the release of the file at
\* cache_entry.path() when it reads and parses, else an empty release.
StaleRelease(file) ==
    IF IsSome(file) /\ IsSome(FromJson(Get(file)))
    THEN Get(FromJson(Get(file))).release
    ELSE FallbackRelease

MutListReleaseNoFallback(r, file) ==
    IF r.ok THEN Get(r.release) ELSE FallbackRelease

ListRelease(r, file) == IF r.ok THEN Get(r.release) ELSE StaleRelease(file)

\* fetch returns r to list, which goes on with ListRelease.
Returns(r) ==
    /\ pc' = "done"
    /\ result' = Some(r)
    /\ listRelease' = Some(ListRelease(r, cacheFile'))

\* What a new invocation of list (installed_only unset) starts from.
Begin(base) ==
    /\ pc \in {"idle", "done"}
    /\ api_base' = base
    /\ response' = None
    /\ UNCHANGED <<now, cacache, cacheFile, last200>>
    /\ UNCHANGED <<scanVars, mergeVars, callVars, pinVars, raceVars>>

\* cacache::read_sync(cache.root(), cache_entry.path()) and from_slice(..).ok()
ReadCachedData == IF IsSome(cacache) THEN FromJson(Get(cacache)) ELSE None

\* if SystemTime::now() < cache.expires_at
MutIsFreshInverted(c, t) == c.expires_at < t

IsFresh(c, t) == t < c.expires_at

\* fetch_available_rubies with RV_RELEASES_URL = "-": the empty release,
\* before the cache is touched.
MutSentinelReadsCache == 0 + 1

SentinelCacheReads == 0

FetchSentinel ==
    /\ Begin("-")
    /\ cached_data' = None
    /\ request' = None
    /\ sent' = 0
    /\ cacheReads' = SentinelCacheReads
    /\ Returns(Ok(SentinelRelease))

\* Steps 1 and 2: the cached entry is read and is fresh.
FetchFresh ==
    /\ Begin("https://api.github.com")
    /\ IsSome(ReadCachedData)
    /\ IsFresh(Get(ReadCachedData), now)
    /\ cached_data' = ReadCachedData
    /\ request' = None
    /\ sent' = 0
    /\ cacheReads' = 1
    /\ Returns(Ok(Get(ReadCachedData).release))

\* let etag = cached_data.as_ref().and_then(|c| c.etag.clone())
RequestETag(cd) == IF IsSome(cd) THEN Get(cd).etag ELSE None

\* Steps 1 to 4: the cached entry is missing, unreadable or stale; the GET is
\* built (If-None-Match when the entry has an ETag) and sent.
FetchSend ==
    /\ Begin("https://api.github.com")
    /\ ~(IsSome(ReadCachedData) /\ IsFresh(Get(ReadCachedData), now))
    /\ cached_data' = ReadCachedData
    /\ request' = Some([if_none_match |-> RequestETag(ReadCachedData)])
    /\ sent' = 1
    /\ cacheReads' = 1
    /\ pc' = "awaiting"
    /\ result' = None
    /\ listRelease' = None

Handled(resp) ==
    /\ pc = "awaiting"
    /\ response' = resp
    /\ UNCHANGED <<now, api_base, cached_data, request, sent, cacheReads>>
    /\ UNCHANGED <<scanVars, mergeVars, callVars, pinVars, raceVars>>

\* request_builder.send().await? fails: no response.
SendFails ==
    /\ Handled(None)
    /\ UNCHANGED <<cacache, cacheFile, last200>>
    /\ Returns(Err("RequestError"))

\* The entry the 304 arm writes back: stale_cache with its expiry recomputed.
MutRevalidatedDropsETag(cd, cc) ==
    [Get(cd) EXCEPT !.expires_at = ExpiryAt(now, cc), !.etag = None]

Revalidated(cd, cc) == [Get(cd) EXCEPT !.expires_at = ExpiryAt(now, cc)]

\* cached_data.ok_or_else(|| io::Error::other("304 response without prior cache"))
MutNoPriorCacheEmpty == Ok(SentinelRelease)

NoPriorCache == Err("304 response without prior cache")

\* 304 Not Modified.  Without cached_data it is an error; with it the entry
\* is written back through cacache.  ioOk: cacache::write_sync succeeds.
Recv304(cc, ioOk) ==
    /\ Handled(Some(Resp(304, None, cc)))
    /\ UNCHANGED <<cacheFile, last200>>
    /\ IF ~IsSome(cached_data)
       THEN /\ UNCHANGED cacache
            /\ Returns(NoPriorCache)
       ELSE IF ioOk
       THEN /\ cacache' = Some(ToJson(Revalidated(cached_data, cc)))
            /\ Returns(Ok(Get(cached_data).release))
       ELSE /\ UNCHANGED cacache
            /\ Returns(Err("CacacheError"))

\* The entry the 200 arm builds.
NewEntry(etag, cc, body) == CachedRelease(ExpiryAt(now, cc), etag, Get(body))

\* 200 OK.  body is the parsed Release, None when response.json() fails.
\* io: "ok", or the write of the file fails with the file untouched
\* ("failed") or already truncated ("cut").
Recv200(etag, cc, body, io) ==
    /\ Handled(Some(Resp(200, etag, cc)))
    /\ UNCHANGED cacache
    /\ IF ~IsSome(body)
       THEN /\ UNCHANGED <<cacheFile, last200>>
            /\ Returns(Err("RequestError"))
       ELSE IF io = "ok"
       THEN /\ cacheFile' = Some(ToJson(NewEntry(etag, cc, body)))
            /\ last200' = Some(NewEntry(etag, cc, body))
            /\ Returns(Ok(Get(body)))
       ELSE /\ cacheFile' = IF io = "cut" THEN Some(Garbage) ELSE cacheFile
            /\ UNCHANGED last200
            /\ Returns(Err("IoError"))

\* Any other status: response.error_for_status().
OtherStatuses == {403, 500}

\* Err(response.error_for_status().unwrap_err().into())
MutStatusErrorSwallowed == Ok(SentinelRelease)

StatusError == Err("RequestError")

RecvOther(status) ==
    /\ Handled(Some(Resp(status, None, None)))
    /\ UNCHANGED <<cacache, cacheFile, last200>>
    /\ Returns(StatusError)

Next ==
    \/ Tick
    \/ FetchSentinel
    \/ FetchFresh
    \/ FetchSend
    \/ SendFails
    \/ \E cc \in CacheControls, ioOk \in BOOLEAN : Recv304(cc, ioOk)
    \/ \E etag \in {None} \cup {Some(t) : t \in ETags}, cc \in CacheControls,
          body \in {None} \cup {Some(r) : r \in Releases},
          io \in {"ok", "failed", "cut"} : Recv200(etag, cc, body, io)
    \/ \E status \in OtherStatuses : RecvOther(status)

Spec == Init /\ [][Next]_allVars

\* ------------------------------------------------------------------ claims
\* The entry a store holds, None when it holds none that parses.
EntryOf(store) == IF IsSome(store) THEN FromJson(Get(store)) ELSE None

\* This step begins an invocation (and is not the clock's).
BeginStep == pc \in {"idle", "done"} /\ now' = now

\* This step handles the outcome of the request.
HandleStep == pc = "awaiting" /\ pc' = "done"

DiskUnchanged == cacache' = cacache /\ cacheFile' = cacheFile

\* The entry persisted by the latest 200 is still what the file holds, and
\* the running invocation is not the one that persisted it.
Last200OnDisk ==
    /\ IsSome(last200)
    /\ cacheFile = Some(ToJson(Get(last200)))
    /\ pc # "idle"
    /\ api_base # "-"
    /\ ~(pc = "done" /\ IsSome(response) /\ Get(response).status = 200 /\ Get(result).ok)

\* C1: after a 200 has been handled and its entry persisted, an invocation
\* running before that entry's expires_at has sent no GET and returns the
\* entry's release.
C1_FreshAfter200 ==
    (Last200OnDisk /\ now < Get(last200).expires_at)
        => /\ sent = 0
           /\ pc = "done"
           /\ result = Some(Ok(Get(last200).release))

\* C2: a step in which fetch reads a cache entry that is fresh (now <
\* expires_at) returns that entry's release, sends no GET and leaves both
\* stores as they were.
C2_FreshHit ==
    [][(BeginStep /\ cacheReads' = 1 /\ IsSome(EntryOf(cacache))
          /\ now < Get(EntryOf(cacache)).expires_at)
        => /\ pc' = "done"
           /\ sent' = 0
           /\ request' = None
           /\ result' = Some(Ok(Get(EntryOf(cacache)).release))
           /\ DiskUnchanged]_vars

C2_Witness ==
    /\ pc = "done"
    /\ cacheReads = 1
    /\ sent = 0
    /\ IsSome(EntryOf(cacache))
    /\ now < Get(EntryOf(cacache)).expires_at
    /\ result = Some(Ok(Get(EntryOf(cacache)).release))

\* A 304 was handled in this step with a prior entry read in step 1, and the
\* write of the entry succeeded.
Revalidation ==
    /\ HandleStep
    /\ IsSome(response')
    /\ Get(response').status = 304
    /\ IsSome(cached_data)

\* C3: when a 304 arrives and fetch holds a prior entry, the entry it
\* persists has the prior entry's release and etag, and fetch returns that
\* release; when the write fails nothing is changed.
C3_Frame304 ==
    [][Revalidation =>
          \/ /\ Get(result').ok
             /\ IsSome(EntryOf(cacache'))
             /\ Get(EntryOf(cacache')).release = Get(cached_data).release
             /\ Get(EntryOf(cacache')).etag = Get(cached_data).etag
             /\ result' = Some(Ok(Get(cached_data).release))
             /\ cacheFile' = cacheFile
          \/ /\ Get(result').err = "CacacheError"
             /\ DiskUnchanged]_vars

C3_Witness ==
    /\ pc = "done"
    /\ IsSome(response)
    /\ Get(response).status = 304
    /\ IsSome(cached_data)
    /\ Get(result).ok
    /\ IsSome(Get(cached_data).etag)
    /\ IsSome(EntryOf(cacache))
    /\ Get(EntryOf(cacache)).expires_at # Get(cached_data).expires_at

\* C4: when a 304 arrives and fetch read no prior entry, fetch returns an
\* error and neither store changes.
C4_304WithoutCache ==
    [][(HandleStep /\ IsSome(response') /\ Get(response').status = 304
          /\ ~IsSome(cached_data))
        => /\ ~Get(result').ok
           /\ DiskUnchanged]_vars

C4_Witness ==
    /\ pc = "done"
    /\ IsSome(response)
    /\ Get(response).status = 304
    /\ ~IsSome(cached_data)
    /\ ~Get(result).ok

\* The max-age a Cache-Control value advertises, by case: 60 when the header
\* is absent or holds no max-age.
AdvertisedMaxAge(cc) ==
    CASE cc = Some(HdrMaxAge30) -> 30
      [] cc = Some(HdrPublicMaxAge90) -> 90
      [] OTHER -> 60

\* The entry written in this step, None when the step writes none.
Written ==
    IF cacache' # cacache THEN EntryOf(cacache')
    ELSE IF cacheFile' # cacheFile THEN EntryOf(cacheFile')
    ELSE None

\* C5: every entry fetch persists has expires_at = now + max(max-age, 60),
\* max-age being 60 without a parseable max-age: never less than now + 60.
C5_ExpiryFloor ==
    [][(HandleStep /\ IsSome(Written))
        => /\ Get(Written).expires_at
                = now + Max(AdvertisedMaxAge(Get(response').cache_control), 60)
           /\ Get(Written).expires_at >= now + 60]_vars

C5_Witness ==
    /\ pc = "done"
    /\ IsSome(response)
    /\ Get(response).cache_control = Some(HdrMaxAge30)
    /\ Get(result).ok
    /\ \/ EntryOf(cacheFile) = last200 /\ Get(response).status = 200
       \/ Get(response).status = 304

\* C6: a 304 never stores an expires_at earlier than the one it replaces:
\* the expires_at of the revalidated entry never decreases.
C6_ExpiryMonotonic ==
    [][(IsSome(EntryOf(cacache)) /\ IsSome(EntryOf(cacache')))
        => Get(EntryOf(cacache')).expires_at >= Get(EntryOf(cacache)).expires_at]_vars

C6_Witness ==
    /\ pc = "done"
    /\ IsSome(response)
    /\ Get(response).status = 304
    /\ Get(result).ok
    /\ Get(EntryOf(cacache)).expires_at > Get(cached_data).expires_at
    /\ Get(cached_data).expires_at > 0

\* C7: a GET sent once the entry persisted by the latest 200 has expired is
\* the invocation's only one and carries that entry's ETag as If-None-Match
\* (none when that response had no ETag).
C7_ConditionalGet ==
    (Last200OnDisk /\ pc = "awaiting" /\ now >= Get(last200).expires_at)
        => /\ sent = 1
           /\ Get(request).if_none_match = Get(last200).etag

\* C8: when the request fails in transport or the status is neither 200 nor
\* 304, fetch returns an error and both stores stay as they were.
C8_ErrorFrame ==
    [][(HandleStep /\ (response' = None \/ Get(response').status \notin {200, 304}))
        => /\ ~Get(result').ok
           /\ DiskUnchanged]_vars

C8_Witness ==
    /\ pc = "done"
    /\ IsSome(response)
    /\ Get(response).status = 500
    /\ ~Get(result).ok
    /\ IsSome(EntryOf(cacheFile))
    /\ IsSome(EntryOf(cacache))

\* C9: when fetch fails, list goes on: with the release of the entry in the
\* file of the slot when the file reads and parses, whatever its expires_at,
\* and with a release without assets otherwise.
C9_ListFallback ==
    (pc = "done" /\ ~Get(result).ok)
        => /\ IsSome(listRelease)
           /\ IF IsSome(EntryOf(cacheFile))
              THEN Get(listRelease) = Get(EntryOf(cacheFile)).release
              ELSE Get(listRelease).assets = <<>>

C9_Witness ==
    /\ pc = "done"
    /\ ~Get(result).ok
    /\ IsSome(EntryOf(cacheFile))
    /\ Get(EntryOf(cacheFile)).expires_at <= now
    /\ listRelease = Some(ReleaseB)

\* C10: with RV_RELEASES_URL = "-" fetch returns a release without assets,
\* sends no GET, and neither reads nor writes either store.
C10_Sentinel ==
    [][(BeginStep /\ api_base' = "-")
        => /\ pc' = "done"
           /\ Get(result').ok
           /\ Get(Get(result').release).assets = <<>>
           /\ sent' = 0
           /\ request' = None
           /\ cacheReads' = 0
           /\ DiskUnchanged]_vars

C10_Witness ==
    /\ pc = "done"
    /\ api_base = "-"
    /\ Get(result).ok
    /\ IsSome(EntryOf(cacache))
    /\ now < Get(EntryOf(cacache)).expires_at
    /\ IsSome(EntryOf(cacheFile))

\* --------------------------------------------------------------------- text
\* A String is a sequence of one-character strings.  Ascii lists the
\* characters in use in the order of their code points, which is the order
\* Rust compares str by.
Ascii ==
    <<"-", ".", "/", "0", "1", "2", "3", "4", "5", "6", "7", "8", "9", ":",
      "_", "a", "b", "c", "d", "e", "f", "g", "h", "i", "j", "k", "l", "m",
      "n", "o", "p", "q", "r", "s", "t", "u", "v", "w", "x", "y", "z">>

Code(c) == CHOOSE i \in 1..Len(Ascii) : Ascii[i] = c

\* <str as Ord>::lt
RECURSIVE StrLess(_, _)
StrLess(s, t) ==
    IF t = <<>> THEN FALSE
    ELSE IF s = <<>> THEN TRUE
    ELSE IF Head(s) = Head(t) THEN StrLess(Tail(s), Tail(t))
    ELSE Code(Head(s)) < Code(Head(t))

\* str::starts_with, str::ends_with
StartsWith(s, p) == Len(p) <= Len(s) /\ SubSeq(s, 1, Len(p)) = p
EndsWith(s, p) == Len(p) <= Len(s) /\ SubSeq(s, Len(s) - Len(p) + 1, Len(s)) = p

\* u32 as decimal text
RECURSIVE NatToStr(_)
NatToStr(n) ==
    IF n < 10 THEN <<Digits[n + 1]>>
    ELSE NatToStr(n \div 10) \o <<Digits[(n % 10) + 1]>>

\* ------------------------------------------------------- rv_ruby::RubyVersion
\* A version: engine, major, minor, patch and an optional prerelease tag.
\* major, minor and patch are Option<u32>: Some(n) is written n and None is
\* written Absent, which is below every number as None is below every Some.
Absent == 0 - 1
Version(e, ma, mi, pa, pre) ==
    [engine |-> e, major |-> ma, minor |-> mi, patch |-> pa, prerelease |-> pre]

\* The version ordering: the numbers first, then a release above each of its
\* prereleases, prereleases by their tag.
NumbersLess(v, w) ==
    \/ v.major < w.major
    \/ v.major = w.major /\ v.minor < w.minor
    \/ v.major = w.major /\ v.minor = w.minor /\ v.patch < w.patch

SameNumbers(v, w) ==
    v.major = w.major /\ v.minor = w.minor /\ v.patch = w.patch

PrereleaseLess(p, q) ==
    IF IsSome(p) /\ IsSome(q) THEN StrLess(Get(p), Get(q))
    ELSE IsSome(p) /\ ~IsSome(q)

\* rv_ruby::engine::RubyEngine.  The engines are ordered as the variants of
\* the enum are, Ruby first: latest_patch_version returns ruby-3.3.2 before
\* jruby-9.4.13.1 (test respects_engine_boundaries).
RubyEngine == <<"r", "u", "b", "y">>
JRubyEngine == <<"j", "r", "u", "b", "y">>
Engines == <<RubyEngine, JRubyEngine>>
EngineRank(e) == CHOOSE i \in 1..Len(Engines) : Engines[i] = e
EngineLess(e, f) == EngineRank(e) < EngineRank(f)

VersionLess(v, w) ==
    \/ EngineLess(v.engine, w.engine)
    \/ /\ v.engine = w.engine
       /\ \/ NumbersLess(v, w)
          \/ SameNumbers(v, w) /\ PrereleaseLess(v.prerelease, w.prerelease)

\* Ruby::display_name: "<engine>-<major>.<minor>.<patch>[-<prerelease>]"
display_name(v) ==
    v.engine \o <<"-">> \o NatToStr(v.major) \o <<".">> \o NatToStr(v.minor)
        \o <<".">> \o NatToStr(v.patch)
        \o (IF IsSome(v.prerelease) THEN <<"-">> \o Get(v.prerelease) ELSE <<>>)

\* <Ruby as Ord>::lt: by engine, then by version ascending, then by path.
RubyLess(a, b) ==
    \/ VersionLess(a.version, b.version)
    \/ a.version = b.version /\ StrLess(a.path, b.path)

MutSortLeavesOrder(seq) == seq

\* Vec::sort, a stable sort: each element is put behind the elements that
\* are not greater than it.
RECURSIVE InsertSorted(_, _)
InsertSorted(x, sorted) ==
    IF sorted = <<>> THEN <<x>>
    ELSE IF RubyLess(x, sorted[Len(sorted)])
         THEN InsertSorted(x, SubSeq(sorted, 1, Len(sorted) - 1))
                  \o <<sorted[Len(sorted)]>>
         ELSE sorted \o <<x>>

RECURSIVE SortRubies(_)
SortRubies(seq) ==
    IF seq = <<>> THEN <<>>
    ELSE InsertSorted(seq[Len(seq)], SortRubies(SubSeq(seq, 1, Len(seq) - 1)))

\* ------------------------------------------------------- installation scan
\* crates/rv/src/config/ruby_cache.rs.  The directories are changed from
\* outside at most MaxFsChanges times, and only between two scans; a
\* bin/ruby that is written again gets a later modification time, at most
\* MaxMtime.
MaxFsChanges == 2
MaxMtime == 2

V330 == Version(RubyEngine, 3, 3, 0, None)
V341 == Version(RubyEngine, 3, 4, 1, None)
InstallVersions == {V330, V341}

\* Config::ruby_dirs, in order, and the entries under them.
Roots == <<"opt", "home">>
RootPath(r) == IF r = "opt" THEN <<"/", "o", "p", "t">> ELSE <<"/", "h", "o", "m", "e">>
Slots == {"a", "b", "c", "d"}
SlotRoot(p) == IF p = "c" THEN "home" ELSE "opt"
SlotName(p) ==
    IF p = "a" THEN <<"x">>
    ELSE IF p = "b" THEN <<"y">>
    ELSE IF p = "c" THEN <<"z">>
    ELSE <<"f">>
PathOf(p) == RootPath(SlotRoot(p)) \o <<"/">> \o SlotName(p)
SlotAt(path) == CHOOSE p \in Slots : PathOf(p) = path

\* What is at a slot: nothing, a file or a directory; for a directory,
\* whether bin/ruby exists and its modification time, whether the rest of the
\* directory is a well-formed installation ("ok"), an installation that does
\* not validate ("malformed") or nothing Ruby::from_dir can read
\* ("unparsable"), and the version it holds.
Entry(kind, hasBin, mtime, shape, ver) ==
    [kind |-> kind, hasBin |-> hasBin, mtime |-> mtime, shape |-> shape,
     ver |-> ver]

Installed(ver) == Entry("dir", TRUE, 1, "ok", ver)

\* rv_ruby::Ruby, by the fields the scan and the merge use.
Ruby(ver, path) == [version |-> ver, path |-> path]

\* Ruby::from_dir(path)
from_dir(dirs, p) ==
    IF dirs[p].kind = "dir" /\ dirs[p].shape # "unparsable"
    THEN Some(Ruby(dirs[p].ver, PathOf(p)))
    ELSE None

\* Ruby::is_valid: the directory exists, is well-formed and has bin/ruby.
is_valid(dirs, ruby) ==
    LET d == dirs[SlotAt(ruby.path)]
    IN  d.kind = "dir" /\ d.hasBin /\ d.shape = "ok"

\* serde_json::to_string(&Ruby) and serde_json::from_str::<Ruby>.
ToJsonRuby(ruby) == <<ruby.version, ruby.path>>
GarbageRuby == <<>>
FromJsonRuby(bytes) ==
    IF Len(bytes) = 2 THEN Some(Ruby(bytes[1], bytes[2])) ELSE None

\* rv_cache::cache_digest((ruby_path, ruby_timestamp)): one key per pair.
cache_digest(path, timestamp) == <<path, timestamp>>
CacheKeys == {cache_digest(PathOf(p), t) : p \in Slots, t \in 1..MaxMtime}

MutKeyIgnoresTimestamp(dirs, p) ==
    IF dirs[p].kind = "dir" /\ dirs[p].hasBin
    THEN Some(cache_digest(PathOf(p), 1))
    ELSE None

\* Config::ruby_path_cache_key
ruby_path_cache_key(dirs, p) ==
    IF dirs[p].kind = "dir" /\ dirs[p].hasBin
    THEN Some(cache_digest(PathOf(p), dirs[p].mtime))
    ELSE None

MutCachedRubyUnvalidated(dirs, cache, p) ==
    LET key == ruby_path_cache_key(dirs, p)
        content == IF IsSome(key) THEN cache[Get(key)] ELSE None
    IN  IF IsSome(content) THEN FromJsonRuby(Get(content)) ELSE None

\* Config::get_cached_ruby: what it returns (None is RubyCacheMiss) ...
CachedRuby(dirs, cache, p) ==
    LET key == ruby_path_cache_key(dirs, p)
        content == IF IsSome(key) THEN cache[Get(key)] ELSE None
        parsed == IF IsSome(content) THEN FromJsonRuby(Get(content)) ELSE None
    IN  IF IsSome(parsed) /\ is_valid(dirs, Get(parsed)) THEN parsed ELSE None

\* ... and the entry it removes: the one it read and could not use.
MutEvictsNothing(dirs, cache, p) == FALSE
Evicts(dirs, cache, p) ==
    LET key == ruby_path_cache_key(dirs, p)
    IN  /\ IsSome(key)
        /\ IsSome(cache[Get(key)])
        /\ ~IsSome(CachedRuby(dirs, cache, p))

get_cached_ruby(dirs, cache, p) ==
    [ruby |-> CachedRuby(dirs, cache, p),
     cache |-> IF Evicts(dirs, cache, p)
               THEN [cache EXCEPT ![Get(ruby_path_cache_key(dirs, p))] = None]
               ELSE cache]

MutCacheRubyNeverWrites(dirs, cache, ruby, io) == cache

MutCacheRubyAlwaysWrites(dirs, cache, ruby, io) ==
    LET key == ruby_path_cache_key(dirs, SlotAt(ruby.path))
    IN  IF ~IsSome(key) THEN cache
        ELSE [cache EXCEPT ![Get(key)] = Some(ToJsonRuby(ruby))]

\* Config::cache_ruby: io is what becomes of the write ("ok", "failed"
\* before anything is written, "cut" after a part is).
cache_ruby(dirs, cache, ruby, io) ==
    LET key == ruby_path_cache_key(dirs, SlotAt(ruby.path))
    IN  IF ~IsSome(key) \/ io = "failed" THEN cache
        ELSE IF io = "cut" THEN [cache EXCEPT ![Get(key)] = Some(GarbageRuby)]
        ELSE [cache EXCEPT ![Get(key)] = Some(ToJsonRuby(ruby))]

MutRubyPathsAnyRoot(f) == {p \in Slots : f.dirs[p].kind = "dir"}

\* ruby_paths: the directories directly under the roots that exist.
RubyPaths(f) ==
    {p \in Slots : f.roots[SlotRoot(p)] /\ f.dirs[p].kind = "dir"}

ScanInit ==
    /\ \E homeExists \in BOOLEAN :
          fs = [roots |-> [r \in {Roots[i] : i \in 1..Len(Roots)} |->
                              IF r = "home" THEN homeExists ELSE TRUE],
                dirs |-> [p \in Slots |->
                              IF p = "a" THEN Installed(V341)
                              ELSE IF p = "b" THEN Installed(V330)
                              ELSE IF p = "c" THEN Installed(V341)
                              ELSE Entry("file", FALSE, 1, "ok", V330)]]
    /\ rubyCache = [k \in CacheKeys |-> None]
    /\ scanpc = "idle"
    /\ cand = {}
    /\ work = <<>>
    /\ collected = <<>>
    /\ scanResult = None
    /\ prevResult = None
    /\ changed = FALSE
    /\ storeFailed = FALSE
    /\ fsChanges = 0
    /\ FetchParked
    /\ MergeParked
    /\ CallParked
    /\ PinParked
    /\ RaceParked

\* Something outside rv changes a directory or a cache file.
Outside(dirs2, cache2) ==
    /\ scanpc # "scanning"
    /\ fsChanges < MaxFsChanges
    /\ fs' = [fs EXCEPT !.dirs = dirs2]
    /\ rubyCache' = cache2
    /\ changed' = TRUE
    /\ fsChanges' = fsChanges + 1
    /\ UNCHANGED <<scanpc, cand, work, collected, scanResult, prevResult,
                   storeFailed>>
    /\ UNCHANGED <<vars, mergeVars, callVars, pinVars, raceVars>>

\* bin/ruby of p is written again, with the version ver.
Reinstall(p, ver) ==
    /\ fs.dirs[p].kind = "dir"
    /\ fs.dirs[p].mtime < MaxMtime
    /\ Outside([fs.dirs EXCEPT ![p] =
                    Entry("dir", TRUE, fs.dirs[p].mtime + 1, "ok", ver)],
               rubyCache)

RemoveBin(p) ==
    /\ fs.dirs[p].kind = "dir"
    /\ fs.dirs[p].hasBin
    /\ Outside([fs.dirs EXCEPT ![p].hasBin = FALSE], rubyCache)

RemoveDir(p) ==
    /\ fs.dirs[p].kind = "dir"
    /\ Outside([fs.dirs EXCEPT ![p].kind = "none"], rubyCache)

\* The directory stops being a well-formed installation, bin/ruby untouched.
Damage(p, shape) ==
    /\ fs.dirs[p].kind = "dir"
    /\ fs.dirs[p].shape = "ok"
    /\ Outside([fs.dirs EXCEPT ![p].shape = shape], rubyCache)

\* A cache file is overwritten with something that is no Ruby document.
CorruptEntry(k) ==
    /\ IsSome(rubyCache[k])
    /\ rubyCache[k] # Some(GarbageRuby)
    /\ Outside(fs.dirs, [rubyCache EXCEPT ![k] = Some(GarbageRuby)])

\* discover_rubies starts: the candidate directories are listed.
ScanStart ==
    /\ scanpc # "scanning"
    /\ scanpc' = "scanning"
    /\ cand' = RubyPaths(fs)
    /\ work' = [p \in RubyPaths(fs) |-> "todo"]
    /\ collected' = <<>>
    /\ storeFailed' = FALSE
    /\ prevResult' =
           IF IsSome(scanResult)
           THEN Some([rubies |-> Get(scanResult), storeFailed |-> storeFailed])
           ELSE None
    /\ UNCHANGED <<fs, rubyCache, scanResult, changed, fsChanges>>
    /\ UNCHANGED <<vars, mergeVars, callVars, pinVars, raceVars>>

\* A worker takes the candidate p and looks it up in the cache.
Lookup(p) ==
    /\ scanpc = "scanning"
    /\ p \in cand
    /\ work[p] = "todo"
    /\ LET got == get_cached_ruby(fs.dirs, rubyCache, p)
       IN  /\ rubyCache' = got.cache
           /\ IF IsSome(got.ruby)
              THEN /\ collected' = Append(collected, Get(got.ruby))
                   /\ work' = [work EXCEPT ![p] = "hit"]
              ELSE /\ collected' = collected
                   /\ work' = [work EXCEPT ![p] =
                                   IF Evicts(fs.dirs, rubyCache, p)
                                   THEN "evicted" ELSE "missed"]
    /\ UNCHANGED <<fs, scanpc, cand, scanResult, prevResult, changed,
                   storeFailed, fsChanges>>
    /\ UNCHANGED <<vars, mergeVars, callVars, pinVars, raceVars>>

\* What the worker keeps of a candidate that missed the cache.
MutProbeKeepsInvalid(dirs, p) == from_dir(dirs, p)
Probed(dirs, p) ==
    LET ruby == from_dir(dirs, p)
    IN  IF IsSome(ruby) /\ is_valid(dirs, Get(ruby)) THEN ruby ELSE None

\* After a miss the worker probes the directory and stores what it found.
\* A store that fails is one of the MaxFsChanges faults.
Probe(p, io) ==
    /\ scanpc = "scanning"
    /\ p \in cand
    /\ work[p] \in {"missed", "evicted"}
    /\ work' = [work EXCEPT ![p] = "probed"]
    /\ LET ruby == Probed(fs.dirs, p)
       IN  IF IsSome(ruby)
           THEN /\ io # "ok" => fsChanges < MaxFsChanges
                /\ rubyCache' = cache_ruby(fs.dirs, rubyCache, Get(ruby), io)
                /\ storeFailed' = (storeFailed \/ io # "ok")
                /\ fsChanges' = IF io = "ok" THEN fsChanges ELSE fsChanges + 1
                /\ collected' = Append(collected, Get(ruby))
           ELSE /\ io = "ok"
                /\ UNCHANGED <<rubyCache, storeFailed, collected, fsChanges>>
    /\ UNCHANGED <<fs, scanpc, cand, scanResult, prevResult, changed>>
    /\ UNCHANGED <<vars, mergeVars, callVars, pinVars, raceVars>>

\* Every worker is done: the collected rubies are sorted and returned.
ScanFinish ==
    /\ scanpc = "scanning"
    /\ \A p \in cand : work[p] \in {"hit", "probed"}
    /\ scanpc' = "finished"
    /\ scanResult' = Some(SortRubies(collected))
    /\ changed' = FALSE
    /\ cand' = {}
    /\ work' = <<>>
    /\ collected' = <<>>
    /\ UNCHANGED <<fs, rubyCache, prevResult, storeFailed, fsChanges>>
    /\ UNCHANGED <<vars, mergeVars, callVars, pinVars, raceVars>>

ScanNext ==
    \/ ScanStart
    \/ \E p \in Slots : Lookup(p)
    \/ \E p \in Slots, io \in {"ok", "failed", "cut"} : Probe(p, io)
    \/ ScanFinish
    \/ \E p \in Slots, ver \in InstallVersions : Reinstall(p, ver)
    \/ \E p \in Slots : RemoveBin(p)
    \/ \E p \in Slots : RemoveDir(p)
    \/ \E p \in Slots, shape \in {"malformed", "unparsable"} : Damage(p, shape)
    \/ \E k \in CacheKeys : CorruptEntry(k)

SpecScan == ScanInit /\ [][ScanNext]_allVars

\* ------------------------------------------------------------- scan claims
\* A step in which a worker looks the candidate p up.
LookupStep(p) ==
    /\ scanpc = "scanning"
    /\ scanpc' = "scanning"
    /\ p \in cand
    /\ work[p] = "todo"
    /\ work'[p] # "todo"

\* A step in which a worker probes the candidate p.
ProbeStep(p) ==
    /\ scanpc = "scanning"
    /\ scanpc' = "scanning"
    /\ p \in cand
    /\ work[p] \in {"missed", "evicted"}
    /\ work'[p] = "probed"

\* The key of (path of p, current modification time of its bin/ruby).
CurrentKey(p) == <<PathOf(p), fs.dirs[p].mtime>>
BinExists(p) == fs.dirs[p].kind = "dir" /\ fs.dirs[p].hasBin
Deserializes(bytes) == Len(bytes) = 2
Validates(path) ==
    \E q \in Slots :
        /\ PathOf(q) = path
        /\ fs.dirs[q].kind = "dir" /\ fs.dirs[q].hasBin /\ fs.dirs[q].shape = "ok"

\* The entry under the current key of p is there and usable.
Servable(p) ==
    /\ BinExists(p)
    /\ IsSome(rubyCache[CurrentKey(p)])
    /\ Deserializes(Get(rubyCache[CurrentKey(p)]))
    /\ Validates(Get(rubyCache[CurrentKey(p)])[2])

\* C11: a lookup returns an installation exactly when bin/ruby exists, an
\* entry is stored under the key of (path, current mtime), the entry
\* deserializes and the installation it holds validates; it then returns
\* that installation, and in every other case it misses.
C11_LookupSound ==
    [][\A p \in Slots : LookupStep(p) =>
          /\ (work'[p] = "hit") <=> Servable(p)
          /\ work'[p] = "hit" =>
                /\ Len(collected') = Len(collected) + 1
                /\ ToJsonRuby(collected'[Len(collected')])
                       = Get(rubyCache[CurrentKey(p)])
                /\ Validates(collected'[Len(collected')].path)
          /\ work'[p] # "hit" => collected' = collected]_scanVars

\* One scan in which a lookup hit and another, of a directory whose bin/ruby
\* exists, missed.
C11_Witness ==
    /\ scanpc = "scanning"
    /\ \E p, q \in cand :
          /\ work[p] = "hit"
          /\ work[q] \in {"missed", "evicted"}
          /\ BinExists(q)
    /\ \E p \in cand : work[p] = "missed" /\ ~BinExists(p)

CachedBeforeChange(p) ==
    /\ BinExists(p)
    /\ rubyCache[CurrentKey(p)] = None
    /\ \E t \in 1..MaxMtime :
          /\ t < fs.dirs[p].mtime
          /\ IsSome(rubyCache[<<PathOf(p), t>>])
          /\ Deserializes(Get(rubyCache[<<PathOf(p), t>>]))

\* The installation that is at p now.
FreshRuby(p) == [version |-> fs.dirs[p].ver, path |-> PathOf(p)]

\* C13: once bin/ruby of a cached installation has a new modification time,
\* the lookup misses, and the probe that follows keeps the installation as
\* it is now and, unless the write fails, stores it under the new key.
C13_MtimeInvalidates ==
    [][\A p \in Slots :
          /\ (LookupStep(p) /\ CachedBeforeChange(p))
                => work'[p] = "missed" /\ collected' = collected
          /\ (ProbeStep(p) /\ CachedBeforeChange(p) /\ fs.dirs[p].shape = "ok")
                => /\ collected' = Append(collected, FreshRuby(p))
                   /\ fsChanges' = fsChanges
                         => rubyCache'[CurrentKey(p)]
                                = Some(ToJsonRuby(FreshRuby(p)))]_scanVars

\* The re-probe stored the new version under the new key; the entry of the
\* old version is still under the old one.
C13_Witness ==
    /\ scanpc = "scanning"
    /\ \E p \in cand :
          /\ work[p] = "probed"
          /\ fs.dirs[p].mtime = 2
          /\ rubyCache[CurrentKey(p)] = Some(ToJsonRuby(FreshRuby(p)))
          /\ IsSome(rubyCache[<<PathOf(p), 1>>])
          /\ Deserializes(Get(rubyCache[<<PathOf(p), 1>>]))
          /\ Get(rubyCache[<<PathOf(p), 1>>])[1] # fs.dirs[p].ver
          /\ collected[Len(collected)] = FreshRuby(p)

\* The step in which a scan returns.
ScanFinishStep == scanpc = "scanning" /\ scanpc' = "finished"

\* The running scan follows an earlier one, and nothing outside rv touched
\* the directories or the cache in between.
SecondRunUnchanged == IsSome(prevResult) /\ ~changed

\* No installation the running scan keeps came from a probe.
OnlyHitsKept ==
    \A p \in cand : work[p] = "probed" => ~IsSome(Probed(fs.dirs, p))

ValidInstallations ==
    {FreshRuby(p) : p \in {q \in RubyPaths(fs) : Validates(PathOf(q))}}

Elements(seq) == {seq[i] : i \in 1..Len(seq)}

\* seq lists the set S once each, ascending in the Ruby ordering.
IsSortedListOf(seq, S) ==
    /\ Elements(seq) = S
    /\ Len(seq) = Cardinality(S)
    /\ \A i, j \in 1..Len(seq) : i < j => RubyLess(seq[i], seq[j])

\* C15: whatever the order in which the workers took and finished the
\* candidates, the scan returns the valid installations sorted by the Ruby
\* ordering.
C15_OrderIndependent ==
    [][ScanFinishStep
          => IsSortedListOf(Get(scanResult'), ValidInstallations)]_scanVars

\* The workers finished three installations out of order, two of them of the
\* same version.
C15_Witness ==
    /\ scanpc = "scanning"
    /\ \A p \in cand : work[p] \in {"hit", "probed"}
    /\ Len(collected) = 3
    /\ collected # SortRubies(collected)
    /\ \E i, j \in 1..3 :
          /\ i < j
          /\ collected[i].version = collected[j].version
          /\ StrLess(collected[j].path, collected[i].path)

\* A candidate of the running scan that is no valid installation.
BadCandidate(p) == p \in cand /\ ~Validates(PathOf(p))

\* Some worker can take a step, or the scan can return.
ScanCanGoOn ==
    ENABLED (\/ \E p \in Slots : Lookup(p)
             \/ \E p \in Slots : Probe(p, "ok")
             \/ ScanFinish)

\* C16: a scan with a candidate that is invalid or whose probe fails always
\* has a next step, and when it returns, its list holds every valid
\* installation and none of the bad candidates.
C16_BadCandidateSkipped ==
    /\ [](scanpc = "scanning" => ScanCanGoOn)
    /\ [][(ScanFinishStep /\ \E p \in Slots : BadCandidate(p))
             => /\ ValidInstallations \subseteq Elements(Get(scanResult'))
                /\ \A p \in Slots : BadCandidate(p) =>
                      \A i \in 1..Len(Get(scanResult')) :
                          Get(scanResult')[i].path # PathOf(p)]_scanVars

\* A scan with a directory Ruby::from_dir fails on, one that does not
\* validate and a valid one is about to return the valid one.
C16_Witness ==
    /\ scanpc = "scanning"
    /\ \A p \in cand : work[p] \in {"hit", "probed"}
    /\ \E p \in cand : work[p] = "probed" /\ ~IsSome(from_dir(fs.dirs, p))
    /\ \E p \in cand :
          /\ work[p] = "probed"
          /\ IsSome(from_dir(fs.dirs, p))
          /\ ~is_valid(fs.dirs, Get(from_dir(fs.dirs, p)))
    /\ Len(collected) = 1

\* -------------------------------------------------------- catalog assets
\* crates/rv/src/commands/ruby/list.rs, ruby_from_asset.  An asset is its
\* file name and its download URL.
Asset(name, url) == [name |-> name, browser_download_url |-> url]

\* rv_ruby::Ruby with the platform fields the merge reads.
PlatformRuby(ver, path, os, arch) ==
    [version |-> ver, path |-> path, os |-> os, arch |-> arch]

\* str::strip_suffix(suffix).unwrap_or(curr)
StripSuffix(s, suffix) ==
    IF EndsWith(s, suffix) THEN SubSeq(s, 1, Len(s) - Len(suffix)) ELSE s

\* all_suffixes(), in order.
all_suffixes ==
    << <<".", "a", "r", "m", "6", "4", "_", "l", "i", "n",
         "u", "x", ".", "t", "a", "r", ".", "g", "z">>,
       <<".", "a", "r", "m", "6", "4", "_", "s", "o", "n",
         "o", "m", "a", ".", "t", "a", "r", ".", "g", "z">>,
       <<"x", "8", "6", "_", "6", "4", "_", "l", "i", "n",
         "u", "x", ".", "t", "a", "r", ".", "g", "z">>,
       <<".", "v", "e", "n", "t", "u", "r", "a", ".", "t",
         "a", "r", ".", "g", "z">> >>

\* The loop of ruby_from_asset: every suffix is stripped from what the
\* suffixes before it left.
RECURSIVE StripAll(_, _)
StripAll(s, suffixes) ==
    IF suffixes = <<>> THEN s
    ELSE StripAll(StripSuffix(s, Head(suffixes)), Tail(suffixes))

\* str::parse::<RubyVersion>: "ruby-<major>.<minor>.<patch>" with an optional
\* "-<prerelease>"; anything else is an error.
EnginePrefix == <<"r", "u", "b", "y", "-">>
RubyVersionParse(s) ==
    LET n == Len(s)
        a == Len(EnginePrefix) + 1
        e1 == IF StartsWith(s, EnginePrefix) /\ a <= n /\ IsDigit(s[a])
              THEN CaptureEnd(s, a) ELSE 0
        okMajor == e1 > 0 /\ e1 + 2 <= n /\ s[e1 + 1] = "." /\ IsDigit(s[e1 + 2])
        e2 == IF okMajor THEN CaptureEnd(s, e1 + 2) ELSE 0
        okMinor == e2 > 0 /\ e2 + 2 <= n /\ s[e2 + 1] = "." /\ IsDigit(s[e2 + 2])
        e3 == IF okMinor THEN CaptureEnd(s, e2 + 2) ELSE 0
        okPatch == e3 > 0 /\ (e3 = n \/ (e3 + 2 <= n /\ s[e3 + 1] = "-"))
    IN  IF okPatch
        THEN Some(Version(RubyEngine,
                          ParseU64(SubSeq(s, a, e1)),
                          ParseU64(SubSeq(s, e1 + 2, e2)),
                          ParseU64(SubSeq(s, e2 + 2, e3)),
                          IF e3 = n THEN None ELSE Some(SubSeq(s, e3 + 2, n))))
        ELSE None

\* ARCH_REGEX, r"ruby-[\d\.]+\.(?P<arch>[a-zA-Z0-9_]+)\.tar\.gz" (the names
\* used here have no capital letters).
IsVersionChar(c) == IsDigit(c) \/ c = "."
IsArchChar(c) == IsDigit(c) \/ c = "_" \/ Code(c) >= Code("a")
TarGz == <<".", "t", "a", "r", ".", "g", "z">>

\* s has the text t at position i.
HasAt(s, i, t) ==
    /\ i + Len(t) - 1 <= Len(s)
    /\ \A x \in 1..Len(t) : s[i + x - 1] = t[x]

\* The last position of the run of version (arch) characters after k.
RECURSIVE VersionRunEnd(_, _)
VersionRunEnd(s, k) ==
    IF k + 1 <= Len(s) /\ IsVersionChar(s[k + 1])
    THEN VersionRunEnd(s, k + 1) ELSE k

RECURSIVE ArchRunEnd(_, _)
ArchRunEnd(s, k) ==
    IF k + 1 <= Len(s) /\ IsArchChar(s[k + 1]) THEN ArchRunEnd(s, k + 1) ELSE k

\* The regex matches from i with [\d\.]+ ending at j: "ruby-", version
\* characters up to j, a dot, and a run of arch characters that ".tar.gz"
\* follows.
ArchMatch(name, i, j) ==
    /\ HasAt(name, i, EnginePrefix)
    /\ i + Len(EnginePrefix) <= j
    /\ j <= VersionRunEnd(name, i + Len(EnginePrefix) - 1)
    /\ j + 1 <= Len(name)
    /\ name[j + 1] = "."
    /\ ArchRunEnd(name, j + 1) >= j + 2
    /\ HasAt(name, ArchRunEnd(name, j + 1) + 1, TarGz)

\* captures(..).name("arch"): the match that starts leftmost, with the
\* greedy [\d\.]+ as long as a match allows; "unknown" without a match.
ArchUnknown == <<"u", "n", "k", "n", "o", "w", "n">>
ArchCapture(name) ==
    LET n == Len(name)
        starts == {i \in 1..n : /\ HasAt(name, i, EnginePrefix)
                                 /\ \E j \in i..n : ArchMatch(name, i, j)}
    IN  IF starts = {} THEN ArchUnknown
        ELSE LET i == CHOOSE x \in starts : \A y \in starts : x <= y
                 js == {j \in i..n : ArchMatch(name, i, j)}
                 j == CHOOSE x \in js : \A y \in js : y <= x
             IN  SubSeq(name, j + 2, ArchRunEnd(name, j + 1))

\* parse_arch_str
Arm64Sonoma == <<"a", "r", "m", "6", "4", "_", "s", "o", "n", "o", "m", "a">>
X8664Linux == <<"x", "8", "6", "_", "6", "4", "_", "l", "i", "n", "u", "x">>
Arm64Linux == <<"a", "r", "m", "6", "4", "_", "l", "i", "n", "u", "x">>
parse_arch_str(arch_str) ==
    IF arch_str = Arm64Sonoma THEN <<"macos", "aarch64">>
    ELSE IF arch_str = X8664Linux THEN <<"linux", "x86_64">>
    ELSE IF arch_str = Arm64Linux THEN <<"linux", "aarch64">>
    ELSE <<"unknown", "unknown">>

\* ruby_from_asset: None is the Err of the version parse.
ruby_from_asset(asset) ==
    LET version == RubyVersionParse(StripAll(asset.name, all_suffixes))
        platform == parse_arch_str(ArchCapture(asset.name))
    IN  IF IsSome(version)
        THEN Some(PlatformRuby(Get(version), asset.browser_download_url,
                               platform[1], platform[2]))
        ELSE None

\* ------------------------------------------------------------------- merge
\* A BTreeMap is the sequence of its <<key, value>> pairs, ascending by key.
HasKey(map, key) == \E i \in 1..Len(map) : map[i][1] = key
ValueAt(map, key) == map[CHOOSE i \in 1..Len(map) : map[i][1] = key][2]

\* BTreeMap::insert, where `below` keys of the map are less than key
Put(map, key, value, below) ==
    LET from == IF HasKey(map, key) THEN below + 2 ELSE below + 1
    IN  SubSeq(map, 1, below) \o <<<<key, value>>>> \o SubSeq(map, from, Len(map))

MutNamesBelowByVersion(map, key) ==
    Cardinality({i \in 1..Len(map) :
                    VersionLess(Get(RubyVersionParse(map[i][1])),
                                Get(RubyVersionParse(key)))})

\* The number of keys of a BTreeMap<String, _> that are less than key
NamesBelow(map, key) ==
    Cardinality({i \in 1..Len(map) : StrLess(map[i][1], key)})

\* BTreeMap::into_values
RECURSIVE IntoValues(_)
IntoValues(map) ==
    IF map = <<>> THEN <<>> ELSE <<Head(map)[2]>> \o IntoValues(Tail(map))

\* Iterator::flatten over a sequence of Vecs
RECURSIVE Flatten(_)
Flatten(seqs) == IF seqs = <<>> THEN <<>> ELSE Head(seqs) \o Flatten(Tail(seqs))

\* NonPatchRelease::from(version) and its derived ordering
NonPatchRelease(version) == <<version.engine, version.major, version.minor>>
NonPatchLess(k1, k2) ==
    \/ EngineLess(k1[1], k2[1])
    \/ k1[1] = k2[1] /\ k1[2] < k2[2]
    \/ k1[1] = k2[1] /\ k1[2] = k2[2] /\ k1[3] < k2[3]

\* The number of keys of a BTreeMap<NonPatchRelease, _> that are less than key
ReleasesBelow(map, key) ==
    Cardinality({i \in 1..Len(map) : NonPatchLess(map[i][1], key)})

\* The loop of latest_patch_version: a ruby replaces the one kept for its
\* key unless the kept one has the greater version.
MutKeepFirst(available_rubies, ruby) ==
    LET key == NonPatchRelease(ruby.version)
    IN  IF HasKey(available_rubies, key) THEN available_rubies
        ELSE Put(available_rubies, key, ruby,
                 ReleasesBelow(available_rubies, key))

KeepLatest(available_rubies, ruby) ==
    LET key == NonPatchRelease(ruby.version)
        skip == /\ HasKey(available_rubies, key)
                /\ VersionLess(ruby.version, ValueAt(available_rubies, key).version)
    IN  IF skip THEN available_rubies
        ELSE Put(available_rubies, key, ruby,
                 ReleasesBelow(available_rubies, key))

RECURSIVE LatestFold(_, _)
LatestFold(available_rubies, rubies) ==
    IF rubies = <<>> THEN available_rubies
    ELSE LatestFold(KeepLatest(available_rubies, Head(rubies)), Tail(rubies))

latest_patch_version(rubies_for_this_platform) ==
    IntoValues(LatestFold(<<>>, rubies_for_this_platform))

\* rubies_map.entry(ruby.display_name()).or_default().push(ruby)
MutGroupOverwrites(rubies_map, ruby) ==
    Put(rubies_map, display_name(ruby.version), <<ruby>>,
        NamesBelow(rubies_map, display_name(ruby.version)))

GroupPush(rubies_map, ruby) ==
    LET key == display_name(ruby.version)
    IN  Put(rubies_map, key,
            IF HasKey(rubies_map, key)
            THEN Append(ValueAt(rubies_map, key), ruby) ELSE <<ruby>>,
            NamesBelow(rubies_map, key))

RECURSIVE GroupInstalled(_, _)
GroupInstalled(rubies_map, installed_rubies) ==
    IF installed_rubies = <<>> THEN rubies_map
    ELSE GroupInstalled(GroupPush(rubies_map, Head(installed_rubies)),
                        Tail(installed_rubies))

\* The assets that decode, for the platform asked for.
RECURSIVE MutAnyPlatform(_, _)
MutAnyPlatform(assets, desired) ==
    IF assets = <<>> THEN <<>>
    ELSE ruby_from_asset(Head(assets)) \o MutAnyPlatform(Tail(assets), desired)

RECURSIVE ForThisPlatform(_, _)
ForThisPlatform(assets, desired) ==
    IF assets = <<>> THEN <<>>
    ELSE LET ruby == ruby_from_asset(Head(assets))
             keep == /\ IsSome(ruby)
                     /\ Get(ruby).os = desired[1]
                     /\ Get(ruby).arch = desired[2]
         IN  (IF keep THEN ruby ELSE <<>>) \o ForThisPlatform(Tail(assets), desired)

\* if !rubies_map.contains_key(&ruby.display_name()) { .. push(ruby) }
MutAddAlways(rubies_map, ruby) == GroupPush(rubies_map, ruby)

MutAddUnlessSameMinor(rubies_map, ruby) ==
    IF \E i \in 1..Len(rubies_map) :
           NonPatchRelease(rubies_map[i][2][1].version)
               = NonPatchRelease(ruby.version)
    THEN rubies_map
    ELSE GroupPush(rubies_map, ruby)

AddAvailable(rubies_map, ruby) ==
    IF HasKey(rubies_map, display_name(ruby.version))
    THEN rubies_map
    ELSE GroupPush(rubies_map, ruby)

RECURSIVE MergeAvailable(_, _)
MergeAvailable(rubies_map, available_rubies) ==
    IF available_rubies = <<>> THEN rubies_map
    ELSE MergeAvailable(AddAvailable(rubies_map, Head(available_rubies)),
                        Tail(available_rubies))

\* !ruby.path.as_str().starts_with("http")
Http == <<"h", "t", "t", "p">>
MutInstalledAlways(path) == TRUE
IsInstalledPath(path) == ~StartsWith(path, Http)

\* active_ruby.as_ref().is_some_and(|a| a == &ruby)
MutEntryActiveByName(ruby, active_ruby) ==
    [installed |-> IsInstalledPath(ruby.path),
     active |-> /\ IsSome(active_ruby)
                /\ display_name(Get(active_ruby).version)
                       = display_name(ruby.version),
     details |-> ruby]

JsonRubyEntry(ruby, active_ruby) ==
    [installed |-> IsInstalledPath(ruby.path),
     active |-> active_ruby = Some(ruby),
     details |-> ruby]

RECURSIVE Entries(_, _)
Entries(rubies, active_ruby) ==
    IF rubies = <<>> THEN <<>>
    ELSE <<JsonRubyEntry(Head(rubies), active_ruby)>>
             \o Entries(Tail(rubies), active_ruby)

rubies_to_show(release, installed_rubies, active_ruby, current_platform) ==
    LET grouped == GroupInstalled(<<>>, installed_rubies)
        available_rubies ==
            latest_patch_version(
                ForThisPlatform(release, parse_arch_str(current_platform)))
        rubies_map == MergeAvailable(grouped, available_rubies)
    IN  Entries(Flatten(IntoValues(rubies_map)), active_ruby)

\* The inputs of the merge.  A release has at most MaxAssets assets, and at
\* most MaxInstalled rubies are installed.
MaxAssets == 2
MaxInstalled == 3

Name340Linux ==
    <<"r", "u", "b", "y", "-", "3", ".", "4", ".", "0", ".", "a",
      "r", "m", "6", "4", "_", "l", "i", "n", "u", "x", ".", "t",
      "a", "r", ".", "g", "z">>
Name341Linux ==
    <<"r", "u", "b", "y", "-", "3", ".", "4", ".", "1", ".", "a",
      "r", "m", "6", "4", "_", "l", "i", "n", "u", "x", ".", "t",
      "a", "r", ".", "g", "z">>
Name330Linux ==
    <<"r", "u", "b", "y", "-", "3", ".", "3", ".", "0", ".", "a",
      "r", "m", "6", "4", "_", "l", "i", "n", "u", "x", ".", "t",
      "a", "r", ".", "g", "z">>
Name341Sonoma ==
    <<"r", "u", "b", "y", "-", "3", ".", "4", ".", "1", ".", "a",
      "r", "m", "6", "4", "_", "s", "o", "n", "o", "m", "a", ".",
      "t", "a", "r", ".", "g", "z">>
Name341Ventura ==
    <<"r", "u", "b", "y", "-", "3", ".", "4", ".", "1", ".", "v",
      "e", "n", "t", "u", "r", "a", ".", "t", "a", "r", ".", "g",
      "z">>
NameChecksums ==
    <<"s", "h", "a", "2", "5", "6", ".", "t", "x", "t">>
AssetNames ==
    {Name340Linux, Name341Linux, Name330Linux, Name341Sonoma, Name341Ventura,
     NameChecksums}

DownloadBase == <<"h", "t", "t", "p", "s", ":", "/", "/", "h", "/">>
AssetOf(name) == Asset(name, DownloadBase \o name)
CatalogAssets == {AssetOf(name) : name \in AssetNames}

\* What discover_rubies found: two installations of one version and one of
\* an older patch, in the order it returns them.  A fourth installation is
\* under a search root that main.rs joined to a relative root directory
\* (--root-dir httpd), so that its path is the relative "httpd/x".
V340 == Version(RubyEngine, 3, 4, 0, None)
Installed341a == PlatformRuby(V341, PathOf("a"), "linux", "aarch64")
Installed341c == PlatformRuby(V341, PathOf("c"), "linux", "aarch64")
Installed340b == PlatformRuby(V340, PathOf("b"), "linux", "aarch64")
RelativePath == <<"h", "t", "t", "p", "d", "/", "x">>
Installed330r == PlatformRuby(V330, RelativePath, "linux", "aarch64")
InstalledPool == {Installed341a, Installed341c, Installed340b, Installed330r}

InstalledLists ==
    {l \in UNION {[1..n -> InstalledPool] : n \in 0..MaxInstalled} :
        \A i, j \in 1..Len(l) : i < j => RubyLess(l[i], l[j])}

Unsupported == <<"u", "n", "s", "u", "p", "p", "o", "r", "t", "e", "d">>
Platforms == {Arm64Linux, Arm64Sonoma, Unsupported}

MergeInit ==
    /\ \E release \in UNION {[1..n -> CatalogAssets] : n \in 0..MaxAssets},
          installed_rubies \in InstalledLists,
          active_ruby \in {None, Some(Installed341a)},
          current_platform \in Platforms :
          mergeIn = [release |-> release,
                     installed_rubies |-> installed_rubies,
                     active_ruby |-> active_ruby,
                     current_platform |-> current_platform]
    /\ mergeOut = None
    /\ installedOut = None
    /\ FetchParked
    /\ ScanParked
    /\ CallParked
    /\ PinParked
    /\ RaceParked

\* list without installed_only: rubies_to_show is called on the inputs.
Merge ==
    /\ mergeOut = None
    /\ installedOut = None
    /\ mergeOut' = Some(rubies_to_show(mergeIn.release, mergeIn.installed_rubies,
                                       mergeIn.active_ruby,
                                       mergeIn.current_platform))
    /\ UNCHANGED <<mergeIn, installedOut>>
    /\ UNCHANGED <<vars, scanVars, callVars, pinVars, raceVars>>

\* list with installed_only: every installed ruby is an entry, in the order
\* given.
RECURSIVE InstalledEntries(_, _)
InstalledEntries(installed_rubies, active_ruby) ==
    IF installed_rubies = <<>> THEN <<>>
    ELSE <<[installed |-> TRUE,
            active |-> active_ruby = Some(Head(installed_rubies)),
            details |-> Head(installed_rubies)]>>
             \o InstalledEntries(Tail(installed_rubies), active_ruby)

ListInstalled ==
    /\ mergeOut = None
    /\ installedOut = None
    /\ installedOut' = Some(InstalledEntries(mergeIn.installed_rubies,
                                             mergeIn.active_ruby))
    /\ UNCHANGED <<mergeIn, mergeOut>>
    /\ UNCHANGED <<vars, scanVars, callVars, pinVars, raceVars>>

MergeNext == Merge \/ ListInstalled

SpecMerge == MergeInit /\ [][MergeNext]_allVars

\* ------------------------------------------------------------ merge claims
Merged == mergeOut # None
Out == Get(mergeOut)

\* How often the ruby r is listed.
Occurrences(r) == Cardinality({i \in 1..Len(Out) : Out[i].details = r})

InstalledInput == Elements(mergeIn.installed_rubies)
InstalledNames == {display_name(r.version) : r \in InstalledInput}

\* What each asset of the catalog decodes to.
Decoded == [asset \in CatalogAssets |-> ruby_from_asset(asset)]

\* The catalog entries: the assets that decode, for the platform asked for.
CatalogEntries ==
    LET desired == parse_arch_str(mergeIn.current_platform)
        decoded == {Decoded[mergeIn.release[i]] : i \in 1..Len(mergeIn.release)}
    IN  {Get(d) : d \in {x \in decoded : /\ IsSome(x)
                                         /\ Get(x).os = desired[1]
                                         /\ Get(x).arch = desired[2]}}

SameFamily(v, w) ==
    v.engine = w.engine /\ v.major = w.major /\ v.minor = w.minor

\* The catalog entries no other entry of their family outranks.
Survivors ==
    {c \in CatalogEntries :
        ~\E d \in CatalogEntries :
            SameFamily(c.version, d.version) /\ VersionLess(c.version, d.version)}

\* C17: every installed ruby given to the merge is listed exactly once,
\* whatever the catalog holds.
C17_InstalledKept ==
    Merged => \A r \in InstalledInput : Occurrences(r) = 1

\* Two installations of one display name and one of an older patch are all
\* listed beside a catalog that offers the newer patch.
C17_Witness ==
    /\ Merged
    /\ Len(mergeIn.installed_rubies) = 3
    /\ \E c \in Survivors : c.version = V341
    /\ \A r \in InstalledInput : Occurrences(r) = 1
    /\ Len(Out) = 3

\* C18: no listed entry that comes from the catalog has the display name of
\* an installed entry.
C18_NoCatalogDuplicate ==
    Merged =>
        \A i \in 1..Len(Out) :
            Out[i].details \notin InstalledInput
                => display_name(Out[i].details.version) \notin InstalledNames

\* The catalog offers, for the platform, the version that is installed, and
\* another one; only the other one is listed from the catalog.
C18_Witness ==
    /\ Merged
    /\ \E c \in Survivors : display_name(c.version) \in InstalledNames
    /\ \E c \in Survivors :
          /\ display_name(c.version) \notin InstalledNames
          /\ Occurrences(c) = 1
    /\ Len(Out) = Len(mergeIn.installed_rubies) + 1

\* An installed ruby and a catalog entry for the platform of the same family,
\* the installed one with the higher patch.
InstalledAhead(r, c) ==
    /\ r \in InstalledInput
    /\ c \in CatalogEntries
    /\ SameFamily(r.version, c.version)
    /\ r.version.patch > c.version.patch

\* C19 as stated: with an installed ruby ahead of a catalog entry of its
\* family, the installed one is listed and the catalog entry is not.
C19_RemoteSuppressed ==
    Merged =>
        \A r \in InstalledPool, c \in CatalogEntries :
            InstalledAhead(r, c) => Occurrences(r) = 1 /\ Occurrences(c) = 0

\* C19 amended: with an installed ruby ahead of a catalog entry of its
\* family, the installed one is listed, and so is the catalog entry, as not
\* installed, unless the catalog has a newer entry of the family or an
\* installed ruby has the entry's display name.
C19_RemoteListedBesideInstalled ==
    Merged =>
        \A r \in InstalledPool, c \in CatalogEntries :
            InstalledAhead(r, c) =>
                /\ Occurrences(r) = 1
                /\ Occurrences(c) =
                       IF /\ c \in Survivors
                          /\ display_name(c.version) \notin InstalledNames
                       THEN 1 ELSE 0
                /\ \A i \in 1..Len(Out) : Out[i].details = c => ~Out[i].installed

\* Installed 3.4.1 and the catalog's 3.4.0 are both listed.
C19_Witness ==
    /\ Merged
    /\ mergeIn.installed_rubies = <<Installed341a>>
    /\ \E c \in CatalogEntries :
          /\ c.version = V340
          /\ InstalledAhead(Installed341a, c)
          /\ Occurrences(c) = 1
    /\ Occurrences(Installed341a) = 1
    /\ Len(Out) = 2

\* C20: every catalog entry that passes the platform filter and the
\* deduplication and has the display name of no installed ruby is listed
\* exactly once, as not installed.
C20_RemoteOnlyListed ==
    Merged =>
        \A c \in Survivors :
            display_name(c.version) \notin InstalledNames =>
                /\ Occurrences(c) = 1
                /\ \A i \in 1..Len(Out) : Out[i].details = c => ~Out[i].installed

\* Two catalog entries of different families are listed beside an installed
\* ruby of another version.
C20_Witness ==
    /\ Merged
    /\ mergeIn.installed_rubies = <<Installed341a>>
    /\ Cardinality(Survivors) = 2
    /\ \A c \in Survivors :
          /\ display_name(c.version) \notin InstalledNames
          /\ Occurrences(c) = 1
    /\ Len(Out) = 3
    /\ Cardinality({i \in 1..Len(Out) : ~Out[i].installed}) = 2

\* The listed entries that were given to the merge as installed.
FromInstalled(i) == Out[i].details \in InstalledInput

\* C21 as stated: a listed entry is marked installed exactly if it was given
\* to the merge as installed, and not decoded from the catalog.
C21_InstalledIffLocal ==
    Merged => \A i \in 1..Len(Out) : Out[i].installed <=> FromInstalled(i)

\* The entries the list command prints, from either of its branches.
Listed == Merged \/ installedOut # None
Listing ==
    IF Merged THEN Out
    ELSE IF installedOut # None THEN Get(installedOut) ELSE <<>>

ActiveGiven == IsSome(mergeIn.active_ruby)

\* C22: a listed entry is active exactly if an active ruby was given and the
\* entry's ruby equals it; without an active ruby no entry is active.
C22_ActiveIffEqual ==
    \A i \in 1..Len(Listing) :
        Listing[i].active
            <=> (ActiveGiven /\ Listing[i].details = Get(mergeIn.active_ruby))

\* The active ruby is listed beside another installation of the same version
\* and an entry from the catalog; it alone is active.
C22_Witness ==
    /\ Merged
    /\ ActiveGiven
    /\ \E i, j, k \in 1..Len(Out) :
          /\ Out[i].details = Installed341a /\ Out[i].active
          /\ Out[j].details = Installed341c /\ ~Out[j].active
          /\ Out[k].details \notin InstalledInput /\ ~Out[k].active
    /\ Cardinality({i \in 1..Len(Out) : Out[i].active}) = 1

\* ------------------------------------------------- calls of pure functions
\* latest_patch_version is called on at most MaxRubies rubies of the catalog:
\* releases and prereleases of one family, another family, another engine
\* with the same numbers, a version without minor and patch, and one version
\* offered at two URLs.
MaxRubies == 3

CatalogRuby(ver, tag) ==
    PlatformRuby(ver, DownloadBase \o tag, "linux", "aarch64")

V340Preview1 ==
    Version(RubyEngine, 3, 4, 0,
            Some(<<"p", "r", "e", "v", "i", "e", "w", "1">>))
V340Rc1 == Version(RubyEngine, 3, 4, 0, Some(<<"r", "c", "1">>))
VJ340 == Version(JRubyEngine, 3, 4, 0, None)
V3 == Version(RubyEngine, 3, Absent, Absent, None)

DedupPool ==
    {CatalogRuby(V340, <<"a">>), CatalogRuby(V341, <<"b">>),
     CatalogRuby(V341, <<"c">>), CatalogRuby(V340Preview1, <<"d">>),
     CatalogRuby(V340Rc1, <<"e">>), CatalogRuby(V330, <<"f">>),
     CatalogRuby(VJ340, <<"g">>), CatalogRuby(V3, <<"h">>)}

DedupCalls ==
    {[fn |-> "latest_patch_version", rubies |-> rubies] :
        rubies \in UNION {[1..n -> DedupPool] : n \in 0..MaxRubies}}

Dedup ==
    /\ callIn.fn = "latest_patch_version"
    /\ callOut = None
    /\ callOut' = Some(latest_patch_version(callIn.rubies))
    /\ UNCHANGED callIn
    /\ UNCHANGED <<vars, scanVars, mergeVars, pinVars, raceVars>>

\* RubyRequest::satisfied_by: the engines are the same and every part the
\* request gives is the part of the ruby's version.
satisfied_by(ruby_request, ruby) ==
    /\ ruby_request.engine = ruby.version.engine
    /\ ruby_request.major \in {Absent, ruby.version.major}
    /\ ruby_request.minor \in {Absent, ruby.version.minor}
    /\ ruby_request.patch \in {Absent, ruby.version.patch}

\* Config::matching_ruby on the list self.rubies() returned:
\* rubies.into_iter().rev().find(|ruby| ruby_request.satisfied_by(ruby))
RECURSIVE MutMatchingFirst(_, _)
MutMatchingFirst(rubies, ruby_request) ==
    IF rubies = <<>> THEN None
    ELSE IF satisfied_by(ruby_request, Head(rubies)) THEN Some(Head(rubies))
    ELSE MutMatchingFirst(Tail(rubies), ruby_request)

RECURSIVE matching_ruby(_, _)
matching_ruby(rubies, ruby_request) ==
    IF rubies = <<>> THEN None
    ELSE IF satisfied_by(ruby_request, rubies[Len(rubies)])
         THEN Some(rubies[Len(rubies)])
    ELSE matching_ruby(SubSeq(rubies, 1, Len(rubies) - 1), ruby_request)

\* The requests: RubyRequest::default() (any ruby), a minor, two full
\* versions, and two that no installation satisfies.
Requests ==
    {Version(RubyEngine, Absent, Absent, Absent, None),
     Version(RubyEngine, 3, 4, Absent, None),
     Version(RubyEngine, 3, 4, 1, None),
     Version(RubyEngine, 3, 3, 0, None),
     Version(RubyEngine, 3, 5, Absent, None),
     Version(JRubyEngine, Absent, Absent, Absent, None)}

\* self.rubies() is the sorted list discover_rubies returns.
ResolveCalls ==
    {[fn |-> "matching_ruby", rubies |-> rubies, request |-> ruby_request] :
        rubies \in InstalledLists, ruby_request \in Requests}

Resolve ==
    /\ callIn.fn = "matching_ruby"
    /\ callOut = None
    /\ callOut' = Some(matching_ruby(callIn.rubies, callIn.request))
    /\ UNCHANGED callIn
    /\ UNCHANGED <<vars, scanVars, mergeVars, pinVars, raceVars>>

\* Cache-Control values parse_max_age is called on: one and two max-age
\* tokens, with and without other directives, none, one without digits, and
\* one whose digits are above u64::MAX.
HdrMaxAge30Then90 ==
    <<"m", "a", "x", "-", "a", "g", "e", "=", "3", "0", ",",
      "m", "a", "x", "-", "a", "g", "e", "=", "9", "0">>
HdrNoDigits == <<"m", "a", "x", "-", "a", "g", "e", "=">>
HdrNoDigitsThen90 ==
    <<"m", "a", "x", "-", "a", "g", "e", "=", ",",
      "m", "a", "x", "-", "a", "g", "e", "=", "9", "0">>
HdrSMaxage == <<"s", "-", "m", "a", "x", "a", "g", "e", "=", "9", "0">>
HdrZeros030 == <<"m", "a", "x", "-", "a", "g", "e", "=", "0", "3", "0">>
HdrTooLarge ==
    <<"m", "a", "x", "-", "a", "g", "e", "=",
      "1", "8", "4", "4", "6", "7", "4", "4", "0", "7",
      "3", "7", "0", "9", "5", "5", "1", "6", "1", "6">>
HdrTooLargeThen90 ==
    HdrTooLarge \o <<",", "m", "a", "x", "-", "a", "g", "e", "=", "9", "0">>

Headers ==
    {HdrMaxAge30, HdrPublicMaxAge90, HdrNoCache, HdrMaxAge30Then90,
     HdrNoDigits, HdrNoDigitsThen90, HdrSMaxage, HdrZeros030, HdrTooLarge,
     HdrTooLargeThen90}

ParseCalls == {[fn |-> "parse_max_age", header |-> h] : h \in Headers}

ParseMaxAge ==
    /\ callIn.fn = "parse_max_age"
    /\ callOut = None
    /\ callOut' = Some(parse_max_age(callIn.header))
    /\ UNCHANGED callIn
    /\ UNCHANGED <<vars, scanVars, mergeVars, pinVars, raceVars>>

\* Assets to decode: every version text with every architecture token, and a
\* file that is no archive.
Str(v) == display_name(v)
V3100 == Version(RubyEngine, 3, 10, 0, None)
VersionTexts == {Str(V341), Str(V330), Str(V3100), Str(V340Preview1), Str(V340Rc1)}
Ventura == <<"v", "e", "n", "t", "u", "r", "a">>
X8664Sonoma == <<"x", "8", "6", "_", "6", "4", "_", "s", "o", "n", "o", "m", "a">>
SupportedTokens == {Arm64Sonoma, X8664Linux, Arm64Linux}
ArchTokens == SupportedTokens \cup {Ventura, X8664Sonoma}
ArchiveName(text, token) == text \o <<".">> \o token \o TarGz
DecodePool ==
    {AssetOf(ArchiveName(text, token)) : text \in VersionTexts, token \in ArchTokens}
        \cup {AssetOf(NameChecksums)}
DecodeCalls == {[fn |-> "ruby_from_asset", asset |-> a] : a \in DecodePool}

\* format!("{display_name}-{os}-{arch}"), by its three parts.
RubyKey(ruby) == <<display_name(ruby.version), ruby.os, ruby.arch>>

\* ruby_from_asset with what it hands to the version parser: handed is the
\* name after the suffix loop, and ruby is None when the parse failed.
Decode ==
    /\ callIn.fn = "ruby_from_asset"
    /\ callOut = None
    /\ LET ruby == ruby_from_asset(callIn.asset)
       IN  callOut' = Some([handed |-> StripAll(callIn.asset.name, all_suffixes),
                            ruby |-> ruby,
                            key |-> IF IsSome(ruby) THEN Some(RubyKey(Get(ruby)))
                                    ELSE None])
    /\ UNCHANGED callIn
    /\ UNCHANGED <<vars, scanVars, mergeVars, pinVars, raceVars>>

\* The assets of a release in every order, and what discover_rubies
\* returned, which is sorted.
V390 == Version(RubyEngine, 3, 9, 0, None)
ShowAssets ==
    {AssetOf(ArchiveName(Str(V3100), Arm64Linux)),
     AssetOf(ArchiveName(Str(V390), Arm64Linux)),
     AssetOf(ArchiveName(Str(V341), Arm64Linux))}
ShowInstalled ==
    {PlatformRuby(V390, PathOf("a"), "linux", "aarch64"),
     PlatformRuby(V390, PathOf("c"), "linux", "aarch64"),
     PlatformRuby(V3100, PathOf("b"), "linux", "aarch64")}
Orderings(S) ==
    {l \in UNION {[1..n -> S] : n \in 0..Cardinality(S)} :
        \A i, j \in 1..Len(l) : i # j => l[i] # l[j]}
ShowReleases == Orderings(ShowAssets)
ShowLists ==
    {l \in Orderings(ShowInstalled) :
        \A i, j \in 1..Len(l) : i < j => RubyLess(l[i], l[j])}

\* Runs of the list command: what the scan of config.rubies() returned, what
\* the scan inside config.project_ruby() returned after it, the request of
\* the project (None when ruby_request() is an Err), the release that was
\* fetched or fallen back to, and the installed_only flag.
ListRequests ==
    {None,
     Some(Version(RubyEngine, Absent, Absent, Absent, None)),
     Some(Version(RubyEngine, 3, 3, 0, None))}
ListReleases == {<<>>, <<AssetOf(Name341Linux), AssetOf(Name340Linux)>>}
ListCalls ==
    {[fn |-> "list", first_scan |-> first, second_scan |-> second,
      request |-> ruby_request, release |-> release,
      installed_only |-> installed_only] :
        first \in InstalledLists, second \in InstalledLists,
        ruby_request \in ListRequests, release \in ListReleases,
        installed_only \in BOOLEAN}
    \cup
    {[fn |-> "list", first_scan |-> scan, second_scan |-> scan,
      request |-> None, release |-> release, installed_only |-> FALSE] :
        scan \in ShowLists, release \in ShowReleases}

\* Config::project_ruby on the list its own scan returned.
project_ruby(rubies, ruby_request) ==
    IF IsSome(ruby_request) THEN matching_ruby(rubies, Get(ruby_request)) ELSE None

\* list: the entries it prints, and the active ruby it resolved.
List ==
    /\ callIn.fn = "list"
    /\ callOut = None
    /\ LET installed_rubies == callIn.first_scan
           active_ruby == project_ruby(callIn.second_scan, callIn.request)
       IN  callOut' =
               Some([active_ruby |-> active_ruby,
                     entries |->
                         IF callIn.installed_only
                         THEN InstalledEntries(installed_rubies, active_ruby)
                         ELSE rubies_to_show(callIn.release, installed_rubies,
                                             active_ruby, Arm64Linux)])
    /\ UNCHANGED callIn
    /\ UNCHANGED <<vars, scanVars, mergeVars, pinVars, raceVars>>

CallInit ==
    /\ callIn \in DedupCalls \cup ResolveCalls \cup ParseCalls \cup DecodeCalls
                  \cup ListCalls
    /\ callOut = None
    /\ FetchParked
    /\ ScanParked
    /\ MergeParked
    /\ PinParked
    /\ RaceParked

CallNext == Dedup \/ Resolve \/ ParseMaxAge \/ Decode \/ List

SpecCalls == CallInit /\ [][CallNext]_allVars

\* ------------------------------------------------- claims about the calls
Called(fn) == callIn.fn = fn /\ callOut # None
Returned == Get(callOut)

\* The keys of the rubies given to latest_patch_version, and the rubies of
\* one key.
KeysGiven == {NonPatchRelease(r.version) : r \in Elements(callIn.rubies)}
GivenWith(key) ==
    {r \in Elements(callIn.rubies) : NonPatchRelease(r.version) = key}
ReturnedWith(key) ==
    {i \in 1..Len(Returned) : NonPatchRelease(Returned[i].version) = key}

\* Two versions whose keys must stay apart: the engines differ, or one has a
\* major (a minor) and the other has none.
KeptApart(v, w) ==
    \/ v.engine # w.engine
    \/ (v.major = Absent) # (w.major = Absent)
    \/ (v.minor = Absent) # (w.minor = Absent)

\* C23: latest_patch_version returns one ruby for every key (engine, major,
\* minor) among the rubies given and nothing else; the ruby returned for a
\* key is one of the given rubies of that key that none of them outranks; and
\* two given rubies with different engines, or with a part one has and the
\* other lacks, are answered by two different returned rubies.
C23_OnePerKeyLatest ==
    Called("latest_patch_version") =>
        /\ Len(Returned) = Cardinality(KeysGiven)
        /\ \A key \in KeysGiven :
              /\ Cardinality(ReturnedWith(key)) = 1
              /\ \A i \in ReturnedWith(key) :
                    /\ Returned[i] \in GivenWith(key)
                    /\ \A r \in GivenWith(key) :
                          ~VersionLess(Returned[i].version, r.version)
        /\ \A r, q \in Elements(callIn.rubies) :
              KeptApart(r.version, q.version) =>
                  \E i, j \in 1..Len(Returned) :
                      /\ i # j
                      /\ NonPatchRelease(Returned[i].version)
                             = NonPatchRelease(r.version)
                      /\ NonPatchRelease(Returned[j].version)
                             = NonPatchRelease(q.version)

\* A release candidate, the release and the same numbers of another engine
\* are given, the release not last: the release and the other engine's ruby
\* are returned.
C23_Witness ==
    /\ Called("latest_patch_version")
    /\ callIn.rubies = <<CatalogRuby(V340, <<"a">>),
                         CatalogRuby(V340Rc1, <<"e">>),
                         CatalogRuby(VJ340, <<"g">>)>>
    /\ Returned = <<CatalogRuby(V340, <<"a">>), CatalogRuby(VJ340, <<"g">>)>>

\* The installations of the list that satisfy the request.
Satisfying ==
    {r \in Elements(callIn.rubies) : satisfied_by(callIn.request, r)}

\* C24: matching_ruby returns nothing exactly if no ruby of the list
\* satisfies the request; otherwise it returns a satisfying ruby that no
\* satisfying ruby follows in the sorted order.
C24_LastSatisfying ==
    Called("matching_ruby") =>
        IF Satisfying = {} THEN Returned = None
        ELSE /\ IsSome(Returned)
             /\ Get(Returned) \in Satisfying
             /\ \A r \in Satisfying : ~RubyLess(Get(Returned), r)

\* Three installations satisfy the request for 3.4; of the two of the
\* latest version, the one that sorts last by its path is returned.
C24_Witness ==
    /\ Called("matching_ruby")
    /\ callIn.request = Version(RubyEngine, 3, 4, Absent, None)
    /\ Cardinality(Satisfying) = 3
    /\ Returned = Some(Installed341a)
    /\ RubyLess(Installed340b, Installed341c)
    /\ RubyLess(Installed341c, Installed341a)

\* No installation satisfies the request: nothing is returned.
C24_WitnessNone ==
    /\ Called("matching_ruby")
    /\ Len(callIn.rubies) = 3
    /\ Satisfying = {}
    /\ Returned = None

\* The max-age=<digits> tokens of the header given to parse_max_age, by
\* their position, and the digits of the first one.
TokenStarts ==
    {i \in 1..Len(callIn.header) : MaxAgeMatchAt(callIn.header, i)}
FirstTokenDigits ==
    LET i == CHOOSE x \in TokenStarts : \A y \in TokenStarts : x <= y
        from == i + Len(MaxAgeLiteral)
    IN  SubSeq(callIn.header, from, CaptureEnd(callIn.header, from))

\* The digits have a value that can be written down here.
Short(ds) == Len(StripZeros(ds)) <= 9

\* C25 as stated: without a max-age=<digits> token parse_max_age returns
\* nothing, and with one it returns the value of the first.
C25_FirstToken ==
    Called("parse_max_age") =>
        IF TokenStarts = {} THEN Returned = None
        ELSE /\ IsSome(Returned)
             /\ Short(FirstTokenDigits)
                    => Get(Returned) = ParseU64(FirstTokenDigits)

\* C25 amended: with a first token whose value is above u64::MAX nothing is
\* returned either, whatever tokens follow it.
C25_FirstTokenThatFits ==
    Called("parse_max_age") =>
        IF TokenStarts = {} THEN Returned = None
        ELSE IF FitsU64(FirstTokenDigits)
        THEN /\ IsSome(Returned)
             /\ Short(FirstTokenDigits)
                    => Get(Returned) = ParseU64(FirstTokenDigits)
        ELSE Returned = None

\* Of two tokens the value of the first is returned.
C25_Witness ==
    /\ Called("parse_max_age")
    /\ callIn.header = HdrMaxAge30Then90
    /\ Cardinality(TokenStarts) = 2
    /\ Returned = Some(30)

\* A first token too large for u64 leaves the token after it unused.
C25_WitnessTooLarge ==
    /\ Called("parse_max_age")
    /\ callIn.header = HdrTooLargeThen90
    /\ Cardinality(TokenStarts) = 2
    /\ Returned = None

\* --------------------------------------------------------------------- pin
\* crates/rv/src/commands/ruby/pin.rs.  pin is invoked at most MaxPins
\* times, each time in the directory "cur", whose parent is "proj", whose
\* parent is the root; nothing else writes the files meanwhile.
MaxPins == 3

PinDirs == {"cur", "proj", "root"}
\* Utf8Path::parent.  The root directory of rv is under "top", which is under
\* "/", and "other" is a directory under "/" that is not under the root.
Parent(dir) ==
    IF dir = "cur" THEN Some("proj")
    ELSE IF dir = "proj" THEN Some("root")
    ELSE IF dir = "root" THEN Some("top")
    ELSE IF dir \in {"top", "other"} THEN Some("/")
    ELSE None

PinVersions ==
    {<<"3", ".", "2", ".", "0">>, <<"3", ".", "0", ".", "0">>,
     <<"3", ".", "3", ".", "0", "-", "r", "c", "1">>}

\* A .ruby-version this user may neither read nor write.
Locked == Some([locked |-> TRUE])
IsText(file) == IsSome(file) /\ file # Locked

\* What a .ruby-version holds before the first pin: nothing, a version
\* without a newline (as the tests write it), a version pinned before.
InitialFiles ==
    {None, Locked, Some(<<"3", ".", "2", ".", "0">>),
     Some(<<"3", ".", "0", ".", "0", "\n">>)}

PinInit ==
    /\ pinConfig = None
    /\ pinFiles \in {f \in [PinDirs -> InitialFiles] : f["root"] = None}
    /\ pinLog = <<>>
    /\ FetchParked
    /\ ScanParked
    /\ MergeParked
    /\ CallParked
    /\ RaceParked

RECURSIVE MutFindPastRoot(_, _, _)
MutFindPastRoot(files, current_dir, root) ==
    IF files[current_dir] # None THEN Some(current_dir)
    ELSE IF IsSome(Parent(current_dir))
         THEN MutFindPastRoot(files, Get(Parent(current_dir)), root)
    ELSE None

\* config::find_project_dir: ruby_version.exists() is the file being there.
RECURSIVE find_project_dir(_, _, _)
find_project_dir(files, current_dir, root) ==
    IF files[current_dir] # None THEN Some(current_dir)
    ELSE IF current_dir = root THEN None
    ELSE IF IsSome(Parent(current_dir))
         THEN find_project_dir(files, Get(Parent(current_dir)), root)
    ELSE None

\* Cli::config: the project directory is the one of --project-dir, or else
\* the one find_project_dir finds.
CliConfig(flag, files) ==
    [project_dir |-> IF IsSome(flag) THEN flag
                     ELSE find_project_dir(files, "cur", "root"),
     current_dir |-> "cur",
     root |-> "root"]

\* config.project_dir.as_ref().unwrap_or(&config.current_dir)
PinTarget(config) ==
    IF IsSome(config.project_dir) THEN Get(config.project_dir)
    ELSE config.current_dir

\* format!("{version}\n")
MutContentNoNewline(version) == version
PinnedContent(version) == version \o <<"\n">>

\* std::fs::write(path, contents): the file is created or truncated and
\* the contents are written; it fails on a file that may not be written,
\* and when the write runs out of space ("cut") the file is left empty.
FsWrite(files, dir, contents, io) ==
    IF files[dir] = Locked \/ io = "failed" THEN files
    ELSE [files EXCEPT ![dir] = IF io = "ok" THEN Some(contents) ELSE Some(<<>>)]

WriteOk(files, dir, io) == files[dir] # Locked /\ io = "ok"

PinOk(op, config, version) ==
    [op |-> op, project_dir |-> config.project_dir, version |-> version,
     ok |-> TRUE, err |-> "-"]
PinErr(op, config, version, e) ==
    [op |-> op, project_dir |-> config.project_dir, version |-> version,
     ok |-> FALSE, err |-> e]

\* pin(config, Some(version)) = set_pinned_ruby
SetPinned(flag, version, io) ==
    /\ Len(pinLog) < MaxPins
    /\ LET config == CliConfig(flag, pinFiles)
           dir == PinTarget(config)
       IN  /\ pinConfig' = config
           /\ pinFiles' = FsWrite(pinFiles, dir, PinnedContent(version), io)
           /\ pinLog' = Append(pinLog,
                               IF WriteOk(pinFiles, dir, io)
                               THEN PinOk("set", config, Some(version))
                               ELSE PinErr("set", config, Some(version),
                                           "IoError"))
    /\ UNCHANGED <<vars, scanVars, mergeVars, callVars, raceVars>>

\* show_pinned_ruby: what it returns.
MutShowFromCurrentDir(config, files) ==
    IF IsText(files[PinTarget(config)]) THEN PinOk("show", config, None)
    ELSE PinErr("show", config, None, "IoError")

ShowResult(config, files) ==
    IF ~IsSome(config.project_dir)
    THEN PinErr("show", config, None, "NoProjectDir")
    ELSE IF IsText(files[Get(config.project_dir)])
         THEN PinOk("show", config, None)
    ELSE PinErr("show", config, None, "IoError")

\* pin(config, None) = show_pinned_ruby
ShowPinned(flag) ==
    /\ Len(pinLog) < MaxPins
    /\ pinConfig' = CliConfig(flag, pinFiles)
    /\ pinLog' = Append(pinLog, ShowResult(pinConfig', pinFiles))
    /\ UNCHANGED pinFiles
    /\ UNCHANGED <<vars, scanVars, mergeVars, callVars, raceVars>>

\* --project-dir: absent, or one of the directories.
ProjectDirFlags == {None, Some("proj"), Some("cur")}

PinNext ==
    \/ \E flag \in ProjectDirFlags, version \in PinVersions,
          io \in {"ok", "failed", "cut"} : SetPinned(flag, version, io)
    \/ \E flag \in ProjectDirFlags : ShowPinned(flag)

SpecPin == PinInit /\ [][PinNext]_allVars

\* ---------------------------------------------------------------- pin claims
\* The directory an invocation pins in: its project directory, or the
\* current directory without one.
TargetOf(entry) ==
    IF entry.project_dir = None THEN "cur" ELSE Get(entry.project_dir)

\* The invocations that set a version, by their place in the log.
Sets == {n \in 1..Len(pinLog) : pinLog[n].op = "set"}
LastSetIn(dir) ==
    {n \in Sets : /\ TargetOf(pinLog[n]) = dir
                  /\ \A m \in Sets : TargetOf(pinLog[m]) = dir => m <= n}

\* C26: when the latest pin of a version in a directory succeeded, the
\* directory's .ruby-version is that version and one newline.
C26_PinWritesVersion ==
    \A dir \in PinDirs : \A n \in LastSetIn(dir) :
        pinLog[n].ok =>
            pinFiles[dir] = Some(Get(pinLog[n].version) \o <<"\n">>)

\* Without a project directory two versions were pinned one after the other
\* in the current directory, which had no .ruby-version: it holds the second.
C26_Witness ==
    /\ Len(pinLog) = 3
    /\ pinLog[1].op = "set" /\ pinLog[1].ok /\ pinLog[1].project_dir = None
    /\ pinLog[2].op = "set" /\ pinLog[2].ok /\ TargetOf(pinLog[2]) = "cur"
    /\ pinLog[3].op = "show" /\ pinLog[3].ok
    /\ pinLog[1].version # pinLog[2].version
    /\ pinFiles["cur"] = Some(Get(pinLog[2].version) \o <<"\n">>)

\* An invocation of pin without a version.
ShowStep ==
    /\ Len(pinLog') = Len(pinLog) + 1
    /\ pinLog'[Len(pinLog')].op = "show"

\* C27: pin without a version fails with NoProjectDir when there is no
\* project directory, succeeds when the project directory has a readable
\* .ruby-version, and changes no .ruby-version.
C27_ShowPinned ==
    [][ShowStep =>
          LET shown == pinLog'[Len(pinLog')]
              project_dir == pinConfig'.project_dir
          IN  /\ project_dir = None
                    => ~shown.ok /\ shown.err = "NoProjectDir"
              /\ (project_dir # None /\ IsText(pinFiles[Get(project_dir)]))
                    => shown.ok
              /\ pinFiles' = pinFiles]_pinVars

\* pin without a version found no project directory and failed; after a
\* version was pinned in the current directory it succeeded, and left the
\* file as the pin wrote it.
C27_Witness ==
    /\ Len(pinLog) = 3
    /\ pinLog[1].op = "show" /\ pinLog[1].err = "NoProjectDir"
    /\ pinLog[2].op = "set" /\ pinLog[2].ok
    /\ pinLog[3].op = "show" /\ pinLog[3].ok
    /\ pinLog[3].project_dir = Some("cur")
    /\ pinFiles["cur"] = Some(Get(pinLog[2].version) \o <<"\n">>)

\* ------------------------------------------------- merge claims, continued
\* C28: every listed entry is an installed ruby given to the merge or a
\* catalog entry for the platform; with no assets in the catalog the list is
\* the installed rubies, each once; and with no installed and no active ruby
\* no entry is installed or active.
C28_NothingElseListed ==
    Merged =>
        /\ \A i \in 1..Len(Out) :
              Out[i].details \in InstalledInput \cup CatalogEntries
        /\ mergeIn.release = <<>> =>
              /\ Len(Out) = Len(mergeIn.installed_rubies)
              /\ \A r \in InstalledInput : Occurrences(r) = 1
        /\ (mergeIn.installed_rubies = <<>> /\ mergeIn.active_ruby = None) =>
              \A i \in 1..Len(Out) : ~Out[i].installed /\ ~Out[i].active

\* The catalog has an asset for the platform and one for another platform,
\* nothing is installed and nothing active: the one entry listed is the
\* catalog's, neither installed nor active.
C28_Witness ==
    /\ Merged
    /\ mergeIn.installed_rubies = <<>>
    /\ mergeIn.active_ruby = None
    /\ mergeIn.current_platform = Arm64Linux
    /\ mergeIn.release = <<AssetOf(Name341Sonoma), AssetOf(Name340Linux)>>
    /\ Len(Out) = 1
    /\ Out[1].details = Get(Decoded[AssetOf(Name340Linux)])
    /\ ~Out[1].installed /\ ~Out[1].active

\* The catalog is empty: the installed rubies are what is listed.
C28_WitnessNoCatalog ==
    /\ Merged
    /\ mergeIn.release = <<>>
    /\ Len(mergeIn.installed_rubies) = 3
    /\ Len(Out) = 3

\* -------------------------------------------------- scan claims, continued
\* A store of the latest scan failed, and the directories are as that scan
\* saw them.
AfterFailedStore ==
    /\ storeFailed
    /\ scanpc = "scanning" \/ (scanpc = "finished" /\ ~changed)

\* Some worker can take a step, or every worker is done, which is all that
\* ScanFinish waits for.
WorkerCanStepOrAllDone ==
    \/ ENABLED (\/ \E p \in Slots : Lookup(p)
                \/ \E p \in Slots : Probe(p, "ok"))
    \/ \A p \in cand : work[p] \in {"hit", "probed"}

\* C29: after the store of a freshly probed valid installation failed, the
\* worker has kept the installation all the same, the scan has a next step
\* until it returns, it returns the valid installations, and some valid
\* installation has no usable cache entry.
C29_StoreFailureKept ==
    AfterFailedStore =>
        /\ scanpc = "scanning" =>
              /\ WorkerCanStepOrAllDone
              /\ \A p \in cand :
                    (work[p] = "probed" /\ Validates(PathOf(p)))
                        => FreshRuby(p) \in Elements(collected)
        /\ scanpc = "finished" =>
              IsSortedListOf(Get(scanResult), ValidInstallations)
        /\ \E p \in RubyPaths(fs) : Validates(PathOf(p)) /\ ~Servable(p)

\* A scan whose store failed has returned three installations; one of them
\* has no usable cache entry.
C29_Witness ==
    /\ scanpc = "finished"
    /\ storeFailed
    /\ ~changed
    /\ Len(Get(scanResult)) = 3
    /\ \E p \in Slots :
          /\ Validates(PathOf(p))
          /\ FreshRuby(p) \in Elements(Get(scanResult))
          /\ ~Servable(p)

\* The slot whose directory a listed installation names is, as the
\* directories stand, a directory directly under a root that exists.
UnderExistingRoot(p) == fs.roots[SlotRoot(p)] /\ fs.dirs[p].kind = "dir"

\* A cache entry that holds an installation at the path of p is stored.
StaleEntryStored(p) ==
    \E k \in CacheKeys :
        /\ k[1] = PathOf(p)
        /\ IsSome(rubyCache[k])
        /\ Deserializes(Get(rubyCache[k]))

\* C30: whatever was installed, removed or damaged before it, a scan returns
\* only installations at directories that are, when it runs, directly under a
\* root that exists and that validate; in particular nothing at a removed
\* directory, at a directory without bin/ruby, under a root that does not
\* exist or at an entry that is no directory, also when a cache entry for
\* that path is still stored.
C30_OnlyPresentAndValid ==
    [][ScanFinishStep =>
          /\ \A i \in 1..Len(Get(scanResult')) :
                \E p \in Slots :
                    /\ Get(scanResult')[i].path = PathOf(p)
                    /\ UnderExistingRoot(p)
                    /\ Validates(PathOf(p))
          /\ \A p \in Slots :
                (\/ ~fs.roots[SlotRoot(p)]
                 \/ fs.dirs[p].kind # "dir"
                 \/ ~fs.dirs[p].hasBin)
                    => \A i \in 1..Len(Get(scanResult')) :
                          Get(scanResult')[i].path # PathOf(p)]_scanVars

\* The scan before listed the installation at a slot; its directory or its
\* bin/ruby was then removed, the cache entry is still stored, and the scan
\* that followed does not list it, nor anything under the root that does not
\* exist.
C30_Witness ==
    /\ scanpc = "finished"
    /\ ~changed
    /\ IsSome(prevResult)
    /\ ~fs.roots["home"]
    /\ \E p \in Slots :
          /\ fs.dirs[p].kind = "none" \/ (fs.dirs[p].kind = "dir" /\ ~fs.dirs[p].hasBin)
          /\ StaleEntryStored(p)
          /\ \E i \in 1..Len(Get(prevResult).rubies) :
                Get(prevResult).rubies[i].path = PathOf(p)
          /\ \A i \in 1..Len(Get(scanResult)) :
                Get(scanResult)[i].path # PathOf(p)

\* ------------------------------------------------- claims about the decoder
\* The platform each supported architecture token stands for.
TokenPlatform(token) ==
    IF token = Arm64Sonoma THEN <<"macos", "aarch64">>
    ELSE IF token = X8664Linux THEN <<"linux", "x86_64">>
    ELSE <<"linux", "aarch64">>

\* The decoder was given the archive of a version text for a token.
Decoded31(text, token) ==
    /\ Called("ruby_from_asset")
    /\ callIn.asset.name = ArchiveName(text, token)

\* What decoding <text>.<token>.tar.gz is to yield: the text goes to the
\* version parser, and the entry has its version, the platform of the token
\* and the key of both.
DecodesAs(text, token) ==
    /\ Returned.handed = text
    /\ IsSome(Returned.ruby)
    /\ Get(Returned.ruby).version = Get(RubyVersionParse(text))
    /\ <<Get(Returned.ruby).os, Get(Returned.ruby).arch>> = TokenPlatform(token)
    /\ Returned.key =
           Some(<<text, TokenPlatform(token)[1], TokenPlatform(token)[2]>>)

\* C31: the archive <V>.<T>.tar.gz of a parseable version text V, with or
\* without a prerelease, and a supported token T hands exactly V to the
\* version parser and yields the entry with that version, the platform of T
\* and the key <display name>-<os>-<arch>.
C31_DecodesSupported ==
    \A text \in VersionTexts, token \in SupportedTokens :
        (Decoded31(text, token) /\ IsSome(RubyVersionParse(text)))
            => DecodesAs(text, token)

\* The same for the archives the decoder does decode so: a version without
\* a prerelease and one of the two arm64 tokens.
C31_DecodesArm64Release ==
    \A text \in VersionTexts, token \in {Arm64Sonoma, Arm64Linux} :
        (/\ Decoded31(text, token)
         /\ IsSome(RubyVersionParse(text))
         /\ ~IsSome(Get(RubyVersionParse(text)).prerelease))
            => DecodesAs(text, token)

\* ruby-3.3.0.arm64_linux.tar.gz, the asset of the repository's test, was
\* decoded to ruby-3.3.0 for linux on aarch64.
C31_Witness ==
    /\ Decoded31(Str(V330), Arm64Linux)
    /\ DecodesAs(Str(V330), Arm64Linux)
    /\ Get(Returned.ruby).version = V330

\* ruby-3.4.1.x86_64_linux.tar.gz: the parser was handed the text with the
\* dot that the third suffix leaves behind.
C31_WitnessTrailingDot ==
    /\ Decoded31(Str(V341), X8664Linux)
    /\ Returned.handed = Str(V341) \o <<".">>

\* ruby-3.4.0-preview1.arm64_linux.tar.gz: the architecture pattern does not
\* match, and the entry is for an unknown platform.
C31_WitnessPrerelease ==
    /\ Decoded31(Str(V340Preview1), Arm64Linux)
    /\ Returned.handed = Str(V340Preview1)
    /\ IsSome(Returned.ruby)
    /\ Get(Returned.ruby).os = "unknown"

\* ------------------------------------------------------- concurrent scans
\* crates/rv/src/config/ruby_cache.rs.  MaxScanners invocations of rv run
\* discover_rubies over the same directories, which do not change, and over
\* the same cache files, without a lock.  fs_err::write opens the file, which
\* creates or truncates it, and then writes the document at its own offset;
\* fs_err::remove_file unlinks the path, and a writer that has the unlinked
\* file open goes on writing to it.  Every store succeeds.
MaxScanners == 3
Scanners == 1..MaxScanners

\* The directories: one installation, and a file that is no candidate.
RaceFs ==
    [roots |-> [r \in {Roots[i] : i \in 1..Len(Roots)} |-> TRUE],
     dirs |-> [p \in Slots |->
                  IF p = "a" THEN Installed(V341)
                  ELSE IF p = "d" THEN Entry("file", FALSE, 1, "ok", V330)
                  ELSE Entry("none", FALSE, 1, "ok", V330)]]
RaceCand == RubyPaths(RaceFs)

\* A cache file: how often its path was created, and its bytes in the two
\* parts a write may take, <<>> for a part that was skipped over and <<x>>
\* for a part with the data x; None when the path is unlinked.
NoFile == [created |-> 0, bytes |-> None]
Part(doc, k) == <<doc[k]>>
IsHole(part) == part = <<>>

\* OpenOptions::new().write(true).create(true).truncate(true).open(path)
Opened(file) ==
    IF IsSome(file.bytes)
    THEN [file EXCEPT !.bytes = Some(<<>>)]
    ELSE [created |-> file.created + 1, bytes |-> Some(<<>>)]

MutWriteReplaces(file, handle, doc, k) ==
    IF IsSome(file.bytes) /\ handle = file.created
    THEN [file EXCEPT !.bytes = Some(<<Part(doc, k)>>)]
    ELSE file

\* write(fd, part k of doc) at the offset of the handle: the file the handle
\* is for gets the part at its place, with a hole before it where nothing
\* was written; a handle for an unlinked file changes nothing at the path.
WrittenAt(file, handle, doc, k) ==
    IF IsSome(file.bytes) /\ handle = file.created
    THEN LET old == Get(file.bytes)
         IN  [file EXCEPT !.bytes =
                 Some([i \in 1..Max(Len(old), k) |->
                          IF i = k THEN Part(doc, k)
                          ELSE IF i <= Len(old) THEN old[i]
                          ELSE <<>>])]
    ELSE file

\* fs_err::remove_file(path), its result ignored.
Removed(file) == [file EXCEPT !.bytes = None]

MutFileTextHolesRead(file) ==
    LET bytes == Get(file.bytes)
    IN  [i \in 1..Len(bytes) |->
            IF IsHole(bytes[i]) THEN V330 ELSE bytes[i][1]]

\* fs_err::read_to_string(path) of a file that is there: its parts, or
\* something that is no document when a part is a hole of zero bytes.
FileText(file) ==
    LET bytes == Get(file.bytes)
    IN  IF \E i \in 1..Len(bytes) : IsHole(bytes[i]) THEN GarbageRuby
        ELSE [i \in 1..Len(bytes) |-> bytes[i][1]]

\* The "interpreters" bucket as get_cached_ruby reads it.
RaceCache(files) ==
    [k \in CacheKeys |->
        IF \E p \in RaceCand :
              /\ Some(k) = ruby_path_cache_key(RaceFs.dirs, p)
              /\ IsSome(files[p].bytes)
        THEN Some(FileText(files[CHOOSE p \in RaceCand :
                                     Some(k) = ruby_path_cache_key(RaceFs.dirs, p)]))
        ELSE None]

RaceInit ==
    /\ racepc = [s \in Scanners |-> "idle"]
    /\ raceWork = [s \in Scanners |-> [p \in RaceCand |-> "todo"]]
    /\ raceHandle = [s \in Scanners |-> [p \in RaceCand |-> 0]]
    /\ raceFiles = [p \in RaceCand |-> NoFile]
    /\ raceCollected = [s \in Scanners |-> <<>>]
    /\ raceResult = [s \in Scanners |-> None]
    /\ raceEvicted = FALSE
    /\ FetchParked
    /\ ScanParked
    /\ MergeParked
    /\ CallParked
    /\ PinParked

\* An invocation starts discover_rubies and lists the candidates.
RaceStart(s) ==
    /\ racepc[s] = "idle"
    /\ racepc' = [racepc EXCEPT ![s] = "scanning"]
    /\ UNCHANGED <<raceWork, raceHandle, raceFiles, raceCollected, raceResult,
                   raceEvicted>>
    /\ UNCHANGED <<vars, scanVars, mergeVars, callVars, pinVars>>

\* get_cached_ruby up to the match on what was read: a hit is returned, an
\* entry that is no valid installation is to be removed, and a file that is
\* not there is a miss.
RaceRead(s, p) ==
    /\ racepc[s] = "scanning"
    /\ raceWork[s][p] = "todo"
    /\ LET cache == RaceCache(raceFiles)
           got == CachedRuby(RaceFs.dirs, cache, p)
       IN  IF IsSome(got)
           THEN /\ raceWork' = [raceWork EXCEPT ![s][p] = "hit"]
                /\ raceCollected' =
                       [raceCollected EXCEPT ![s] = Append(@, Get(got))]
           ELSE /\ raceWork' = [raceWork EXCEPT ![s][p] =
                                   IF Evicts(RaceFs.dirs, cache, p)
                                   THEN "evict" ELSE "missed"]
                /\ UNCHANGED raceCollected
    /\ UNCHANGED <<racepc, raceHandle, raceFiles, raceResult, raceEvicted>>
    /\ UNCHANGED <<vars, scanVars, mergeVars, callVars, pinVars>>

\* The file another invocation has open and has not written out.
BeingWrittenAt(s, p) ==
    \E t \in Scanners \ {s} :
        /\ raceWork[t][p] \in {"w1", "w2"}
        /\ raceHandle[t][p] = raceFiles[p].created
        /\ IsSome(raceFiles[p].bytes)

\* get_cached_ruby removes the entry it could not use, whatever the file
\* holds by now.
RaceEvict(s, p) ==
    /\ racepc[s] = "scanning"
    /\ raceWork[s][p] = "evict"
    /\ raceFiles' = [raceFiles EXCEPT ![p] = Removed(@)]
    /\ raceWork' = [raceWork EXCEPT ![s][p] = "missed"]
    /\ raceEvicted' = (raceEvicted \/ BeingWrittenAt(s, p))
    /\ UNCHANGED <<racepc, raceHandle, raceCollected, raceResult>>
    /\ UNCHANGED <<vars, scanVars, mergeVars, callVars, pinVars>>

\* After the miss: Ruby::from_dir and is_valid, and for a valid installation
\* cache_ruby opens the file; anything else is skipped.
RaceOpen(s, p) ==
    /\ racepc[s] = "scanning"
    /\ raceWork[s][p] = "missed"
    /\ IF IsSome(Probed(RaceFs.dirs, p))
       THEN /\ raceFiles' = [raceFiles EXCEPT ![p] = Opened(@)]
            /\ raceHandle' = [raceHandle EXCEPT ![s][p] = Opened(raceFiles[p]).created]
            /\ raceWork' = [raceWork EXCEPT ![s][p] = "w1"]
       ELSE /\ raceWork' = [raceWork EXCEPT ![s][p] = "skipped"]
            /\ UNCHANGED <<raceFiles, raceHandle>>
    /\ UNCHANGED <<racepc, raceCollected, raceResult, raceEvicted>>
    /\ UNCHANGED <<vars, scanVars, mergeVars, callVars, pinVars>>

\* write_all writes the first part, or the whole document at once.
RaceWriteFirst(s, p, whole) ==
    /\ racepc[s] = "scanning"
    /\ raceWork[s][p] = "w1"
    /\ LET doc == ToJsonRuby(Get(Probed(RaceFs.dirs, p)))
           one == WrittenAt(raceFiles[p], raceHandle[s][p], doc, 1)
       IN  IF whole
           THEN /\ raceFiles' = [raceFiles EXCEPT ![p] =
                                    WrittenAt(one, raceHandle[s][p], doc, 2)]
                /\ raceWork' = [raceWork EXCEPT ![s][p] = "probed"]
                /\ raceCollected' = [raceCollected EXCEPT ![s] =
                                        Append(@, Get(Probed(RaceFs.dirs, p)))]
           ELSE /\ raceFiles' = [raceFiles EXCEPT ![p] = one]
                /\ raceWork' = [raceWork EXCEPT ![s][p] = "w2"]
                /\ UNCHANGED raceCollected
    /\ UNCHANGED <<racepc, raceHandle, raceResult, raceEvicted>>
    /\ UNCHANGED <<vars, scanVars, mergeVars, callVars, pinVars>>

\* write_all writes the rest; cache_ruby returns Ok and the worker returns
\* the ruby.
RaceWriteRest(s, p) ==
    /\ racepc[s] = "scanning"
    /\ raceWork[s][p] = "w2"
    /\ LET ruby == Get(Probed(RaceFs.dirs, p))
       IN  /\ raceFiles' = [raceFiles EXCEPT ![p] =
                               WrittenAt(@, raceHandle[s][p], ToJsonRuby(ruby), 2)]
           /\ raceCollected' = [raceCollected EXCEPT ![s] = Append(@, ruby)]
    /\ raceWork' = [raceWork EXCEPT ![s][p] = "probed"]
    /\ UNCHANGED <<racepc, raceHandle, raceResult, raceEvicted>>
    /\ UNCHANGED <<vars, scanVars, mergeVars, callVars, pinVars>>

\* Every worker of the invocation is done: the rubies are sorted and returned.
RaceFinish(s) ==
    /\ racepc[s] = "scanning"
    /\ \A p \in RaceCand : raceWork[s][p] \in {"hit", "probed", "skipped"}
    /\ racepc' = [racepc EXCEPT ![s] = "finished"]
    /\ raceResult' = [raceResult EXCEPT ![s] = Some(SortRubies(raceCollected[s]))]
    /\ UNCHANGED <<raceWork, raceHandle, raceFiles, raceCollected, raceEvicted>>
    /\ UNCHANGED <<vars, scanVars, mergeVars, callVars, pinVars>>

RaceNext ==
    \/ \E s \in Scanners : RaceStart(s)
    \/ \E s \in Scanners, p \in RaceCand : RaceRead(s, p)
    \/ \E s \in Scanners, p \in RaceCand : RaceEvict(s, p)
    \/ \E s \in Scanners, p \in RaceCand : RaceOpen(s, p)
    \/ \E s \in Scanners, p \in RaceCand, whole \in BOOLEAN :
          RaceWriteFirst(s, p, whole)
    \/ \E s \in Scanners, p \in RaceCand : RaceWriteRest(s, p)
    \/ \E s \in Scanners : RaceFinish(s)

SpecRace == RaceInit /\ [][RaceNext]_allVars

\* ------------------------------------------- claims about concurrent scans
\* The installation at a candidate, as a probe of its directory builds it.
RaceRuby(p) == Get(from_dir(RaceFs.dirs, p))

\* The cache file of p holds the whole document of the installation at p.
HoldsDocument(file, p) ==
    file.bytes = Some(<<Part(ToJsonRuby(RaceRuby(p)), 1),
                        Part(ToJsonRuby(RaceRuby(p)), 2)>>)

\* The lookup of p by the invocation s answers in this step.
RaceReadStep(s, p) == raceWork[s][p] = "todo" /\ raceWork'[s][p] # "todo"

\* C32: a lookup, also one that reads the file while another invocation is
\* writing it, either misses and returns nothing or returns the complete
\* installation of a file that holds the whole document, and that
\* installation is valid.
C32_LookupUnderRace ==
    [][\A s \in Scanners, p \in RaceCand :
          RaceReadStep(s, p) =>
              /\ raceWork'[s][p] \in {"hit", "evict", "missed"}
              /\ raceWork'[s][p] = "hit" =>
                    /\ HoldsDocument(raceFiles[p], p)
                    /\ raceCollected'[s] = Append(raceCollected[s], RaceRuby(p))
                    /\ is_valid(RaceFs.dirs, RaceRuby(p))
              /\ raceWork'[s][p] # "hit" =>
                    raceCollected'[s] = raceCollected[s]]_raceVars

\* A lookup has read a file that holds only the second part, behind a hole,
\* while another invocation has it open to write, and has answered with a
\* miss.
C32_Witness ==
    \E s, t \in Scanners, p \in RaceCand :
        /\ s # t
        /\ raceWork[s][p] = "evict"
        /\ raceWork[t][p] = "w1"
        /\ raceHandle[t][p] = raceFiles[p].created
        /\ IsSome(raceFiles[p].bytes)
        /\ Len(Get(raceFiles[p].bytes)) = 2
        /\ IsHole(Get(raceFiles[p].bytes)[1])

\* A lookup has read the file while another invocation had written its
\* first part only, and has answered with a miss.
C32_WitnessHalfWritten ==
    \E s, t \in Scanners, p \in RaceCand :
        /\ s # t
        /\ raceWork[s][p] = "evict"
        /\ raceWork[t][p] = "w2"
        /\ raceHandle[t][p] = raceFiles[p].created
        /\ raceFiles[p].bytes = Some(<<Part(ToJsonRuby(RaceRuby(p)), 1)>>)

AllFinished == \A s \in Scanners : racepc[s] = "finished"

\* The valid installations of the directories, sorted.
RaceValid == {p \in RaceCand : IsSome(Probed(RaceFs.dirs, p))}

\* C33: when all the concurrent scans have returned, every valid
\* installation has a cache entry that is stored, deserializes and is valid,
\* and all scans have returned the same list, the valid installations.
C33_AllCachedSameList ==
    AllFinished =>
        /\ \A p \in RaceValid :
              /\ HoldsDocument(raceFiles[p], p)
              /\ CachedRuby(RaceFs.dirs, RaceCache(raceFiles), p) = Some(RaceRuby(p))
        /\ \A s, t \in Scanners : raceResult[s] = raceResult[t]
        /\ \A s \in Scanners :
              /\ IsSome(raceResult[s])
              /\ Elements(Get(raceResult[s])) = {RaceRuby(p) : p \in RaceValid}
              /\ Len(Get(raceResult[s])) = Cardinality(RaceValid)

\* All scans have returned, and one of them had removed the file that
\* another was writing.
C33_Witness ==
    /\ AllFinished
    /\ raceEvicted
    /\ \A p \in RaceValid : HoldsDocument(raceFiles[p], p)
    /\ RaceValid # {}

\* ------------------------------------------- claims about the merged order
\* The display name of a listed entry.
NameOf(entry) == display_name(entry.details.version)

\* Where a ruby is in the installed input, 0 for one that is not in it.
InstalledAt(ruby) ==
    IF \E i \in 1..Len(callIn.first_scan) : callIn.first_scan[i] = ruby
    THEN CHOOSE i \in 1..Len(callIn.first_scan) : callIn.first_scan[i] = ruby
    ELSE 0

\* The entries of a listing that went through the merge.
ListEntries == Returned.entries

\* C34: the merged list ascends in the string order of the display names, so
\* that entries of one name are adjacent, entries of one name are in the order
\* of the installed input, and the assets in any other order give the same
\* list.
C34_OrderedByName ==
    (Called("list") /\ ~callIn.installed_only) =>
        /\ \A i, j \in 1..Len(ListEntries) :
              i < j => ~StrLess(NameOf(ListEntries[j]), NameOf(ListEntries[i]))
        /\ \A i, j \in 1..Len(ListEntries) :
              (i < j /\ NameOf(ListEntries[i]) = NameOf(ListEntries[j]))
                  => /\ InstalledAt(ListEntries[i].details) > 0
                     /\ InstalledAt(ListEntries[i].details)
                            < InstalledAt(ListEntries[j].details)
        /\ \A release \in Orderings(Elements(callIn.release)) :
              Len(release) = Len(callIn.release)
                  => rubies_to_show(release, callIn.first_scan,
                                    Returned.active_ruby, Arm64Linux)
                         = ListEntries

\* ruby-3.10.0 is listed before the two installations of ruby-3.9.0, which
\* are in the order of the input, and before ruby-3.4.1 of the catalog, given
\* as the first asset.
C34_Witness ==
    /\ Called("list")
    /\ ~callIn.installed_only
    /\ Len(callIn.release) = 3
    /\ callIn.release[1].name = ArchiveName(Str(V341), Arm64Linux)
    /\ Len(ListEntries) = 4
    /\ NameOf(ListEntries[1]) = Str(V3100)
    /\ NameOf(ListEntries[2]) = Str(V341)
    /\ ListEntries[3].details = callIn.first_scan[1]
    /\ ListEntries[4].details = callIn.first_scan[2]
    /\ NameOf(ListEntries[4]) = Str(V390)

\* --------------------------------------------- claims about the list command
\* The positions of the listing that are marked active.
ActiveMarks ==
    {i \in 1..Len(Returned.entries) : Returned.entries[i].active}

\* The marks of a listing: at most one, and none on an entry that is not one
\* of the installations the listing was built from.
MarksSound ==
    /\ Cardinality(ActiveMarks) <= 1
    /\ \A i \in ActiveMarks :
          Returned.entries[i].details \in Elements(callIn.first_scan)

\* C35: a listing has at most one entry marked active, never one of the
\* catalog, and exactly one whenever the request of the project resolves to
\* an installation, whatever the second scan found that the first did not.
C35_OneActive ==
    Called("list") =>
        /\ MarksSound
        /\ IsSome(Returned.active_ruby) => Cardinality(ActiveMarks) = 1

\* The same when both scans found the same installations, and the marks of
\* every listing.
C35_OneActiveSameScans ==
    Called("list") =>
        /\ MarksSound
        /\ (IsSome(Returned.active_ruby) /\ callIn.first_scan = callIn.second_scan)
               => Cardinality(ActiveMarks) = 1

\* Both scans found two installations, the catalog has two rubies, and the
\* installation the request resolves to is the one entry marked active.
C35_Witness ==
    /\ Called("list")
    /\ ~callIn.installed_only
    /\ callIn.first_scan = callIn.second_scan
    /\ Len(callIn.first_scan) = 2
    /\ Len(callIn.release) = 2
    /\ Returned.active_ruby = Some(Installed341a)
    /\ Cardinality(ActiveMarks) = 1

\* ruby-3.4.1 was installed between the two scans: the request resolves to
\* it, the listing was built without it, and no entry is marked active.
C35_WitnessInstalledBetween ==
    /\ Called("list")
    /\ callIn.first_scan = <<Installed340b>>
    /\ callIn.second_scan = <<Installed340b, Installed341a>>
    /\ callIn.release = <<>>
    /\ Returned.active_ruby = Some(Installed341a)
    /\ Len(Returned.entries) = 1
    /\ ActiveMarks = {}

\* ------------------------------------ claims about unsupported architectures
\* The assets of the release that decode and whose name has none of the three
\* supported architecture tokens.
UnknownArchAssets ==
    {asset \in Elements(mergeIn.release) :
        /\ IsSome(Decoded[asset])
        /\ ArchCapture(asset.name) \notin SupportedTokens}

SupportedPlatform == mergeIn.current_platform \in SupportedTokens

\* C36: a catalog asset whose architecture token is none of the three
\* supported ones is not listed, whatever the platform, an unsupported one
\* included.
C36_UnknownArchNeverListed ==
    Merged => \A asset \in UnknownArchAssets :
                  Occurrences(Get(Decoded[asset])) = 0

\* The same on the platforms that have a token.
C36_UnknownArchNotListedWhenSupported ==
    (Merged /\ SupportedPlatform) =>
        \A asset \in UnknownArchAssets : Occurrences(Get(Decoded[asset])) = 0

\* On arm64_linux the release has the ventura archive and one for the
\* platform; only the second is listed.
C36_Witness ==
    /\ Merged
    /\ mergeIn.current_platform = Arm64Linux
    /\ mergeIn.installed_rubies = <<>>
    /\ mergeIn.release = <<AssetOf(Name341Ventura), AssetOf(Name340Linux)>>
    /\ Len(Out) = 1
    /\ Out[1].details = Get(Decoded[AssetOf(Name340Linux)])

\* On a platform without a token the ventura archive is listed as available.
C36_WitnessUnsupported ==
    /\ Merged
    /\ mergeIn.current_platform = Unsupported
    /\ mergeIn.installed_rubies = <<>>
    /\ mergeIn.release = <<AssetOf(Name341Ventura)>>
    /\ Len(Out) = 1
    /\ Out[1].details = Get(Decoded[AssetOf(Name341Ventura)])
    /\ ~Out[1].installed
    /\ Out[1].details.os = "unknown"

\* ------------------------------------------ claims about list --installed-only
InstalledOnly == installedOut # None
OnlyOut == Get(installedOut)

\* What the merged listing of the same installations shows with no asset in
\* the catalog.
MergedWithoutCatalog ==
    rubies_to_show(<<>>, mergeIn.installed_rubies, mergeIn.active_ruby,
                   mergeIn.current_platform)

\* The installed-only listing is the scanned installations in scan order,
\* each marked installed, and the fetcher and its cache were not touched.
ListsTheScan ==
    /\ FetchParked
    /\ Len(OnlyOut) = Len(mergeIn.installed_rubies)
    /\ \A i \in 1..Len(OnlyOut) :
          /\ OnlyOut[i].details = mergeIn.installed_rubies[i]
          /\ OnlyOut[i].installed

\* The merged listing without a catalog marks the installation of the entry
\* as the entry does.
SameInstalledMark(entry) ==
    \A j \in 1..Len(MergedWithoutCatalog) :
        MergedWithoutCatalog[j].details = entry.details
            => MergedWithoutCatalog[j].installed = entry.installed

\* C37: with installed_only the command fetches nothing, lists exactly the
\* scanned installations in scan order, each marked installed, and that mark
\* is the one the merged listing gives the installation when the catalog is
\* empty.
C37_InstalledOnlyAgrees ==
    InstalledOnly =>
        /\ ListsTheScan
        /\ \A i \in 1..Len(OnlyOut) : SameInstalledMark(OnlyOut[i])

\* The same, the agreement for the installations whose path does not start
\* with "http".
C37_InstalledOnlyAgreesOffHttp ==
    InstalledOnly =>
        /\ ListsTheScan
        /\ \A i \in 1..Len(OnlyOut) :
              ~StartsWith(OnlyOut[i].details.path, Http)
                  => SameInstalledMark(OnlyOut[i])

\* Three installations are listed in scan order, all installed, as the merged
\* listing without a catalog marks them.
C37_Witness ==
    /\ InstalledOnly
    /\ mergeIn.installed_rubies = <<Installed340b, Installed341c, Installed341a>>
    /\ ListsTheScan
    /\ \A i \in 1..Len(OnlyOut) : SameInstalledMark(OnlyOut[i])

\* The installation at "httpd/x" is listed as installed, and the merged
\* listing without a catalog shows it as not installed.
C37_WitnessDisagree ==
    /\ InstalledOnly
    /\ mergeIn.installed_rubies = <<Installed330r>>
    /\ OnlyOut[1].installed
    /\ Len(MergedWithoutCatalog) = 1
    /\ ~MergedWithoutCatalog[1].installed

\* ------------------------------------------------------- find_project_dir
\* crates/rv/src/config.rs.  Calls of find_project_dir with any directory of
\* the tree as current_dir and any as root, and any choice of the
\* directories that hold a .ruby-version.
TreeDirs == {"cur", "proj", "root", "top", "other", "/"}
VersionFile == Some(<<"3", ".", "2", ".", "0">>)
FindCalls ==
    {[fn |-> "find_project_dir", files |-> files, current_dir |-> current_dir,
      root |-> root] :
        files \in [TreeDirs -> {None, VersionFile}],
        current_dir \in TreeDirs, root \in TreeDirs}

FindInit ==
    /\ callIn \in FindCalls
    /\ callOut = None
    /\ FetchParked
    /\ ScanParked
    /\ MergeParked
    /\ PinParked
    /\ RaceParked

Find ==
    /\ callIn.fn = "find_project_dir"
    /\ callOut = None
    /\ callOut' = Some(find_project_dir(callIn.files, callIn.current_dir,
                                        callIn.root))
    /\ UNCHANGED callIn
    /\ UNCHANGED <<vars, scanVars, mergeVars, pinVars, raceVars>>

FindNext == Find

SpecFind == FindInit /\ [][FindNext]_allVars

\* The directories from dir upward, dir included, and how far dir is below
\* "/".
RECURSIVE Upward(_)
Upward(dir) ==
    IF IsSome(Parent(dir)) THEN {dir} \cup Upward(Get(Parent(dir))) ELSE {dir}
Depth(dir) == Cardinality(Upward(dir))

\* The directories the search may look into: those from current_dir upward,
\* and when the root is among them none above the root.
MayCheck ==
    IF callIn.root \in Upward(callIn.current_dir)
    THEN {dir \in Upward(callIn.current_dir) : callIn.root \in Upward(dir)}
    ELSE Upward(callIn.current_dir)

WithFile == {dir \in MayCheck : callIn.files[dir] # None}

\* C38: find_project_dir returns, for every current_dir and root, the
\* nearest directory from current_dir upward that holds .ruby-version, with
\* the root looked into and nothing above it when current_dir is the root or
\* under it, and none when no directory it may look into holds the file.
C38_NearestUpToRoot ==
    Called("find_project_dir") =>
        IF WithFile = {} THEN Returned = None
        ELSE /\ IsSome(Returned)
             /\ Get(Returned) \in WithFile
             /\ \A dir \in WithFile : Depth(dir) <= Depth(Get(Returned))

\* From "cur" under the root "root": "cur" and "proj" hold no file, the root
\* and the directory above it do, and the root is returned.
C38_Witness ==
    /\ Called("find_project_dir")
    /\ callIn.current_dir = "cur"
    /\ callIn.root = "root"
    /\ callIn.files["cur"] = None
    /\ callIn.files["proj"] = None
    /\ callIn.files["root"] # None
    /\ callIn.files["top"] # None
    /\ Returned = Some("root")

\* Under the root only a directory above the root holds the file: none.
C38_WitnessAboveRoot ==
    /\ Called("find_project_dir")
    /\ callIn.current_dir = "proj"
    /\ callIn.root = "root"
    /\ WithFile = {}
    /\ callIn.files["top"] # None
    /\ Returned = None

\* current_dir is not under the root: the search runs out of parents at "/".
C38_WitnessOutsideRoot ==
    /\ Called("find_project_dir")
    /\ callIn.current_dir = "other"
    /\ callIn.root = "root"
    /\ callIn.files["other"] = None
    /\ callIn.files["/"] # None
    /\ Returned = Some("/")

====
